---- MODULE Spec2Model ----
(***************************************************************************)
(* A model of the Bootstrap playground tools:                              *)
(*   - ProjectConfig (css-learning-platform/project_manager.py): the JSON  *)
(*     sidecar file .bootstrap-config.json and its in-memory mapping;      *)
(*   - AdvancedProjectManager.create_project (same file);                  *)
(*   - BootstrapGenerator.create_project / create_base_template            *)
(*     (api/bootstrap_generator.py);                                       *)
(*   - handler.generate_bootstrap_template / generate_custom_css /         *)
(*     hex_to_rgb (.vscode/api/bootstrap_generator.py);                    *)
(*   - the HTTP adapters of both api files, LiveReloadHandler, the command *)
(*     lines of both tools, and organize_files.py.                         *)
(* Text is modelled as a sequence of tokens; a JSON document as the        *)
(* sequence of its members, each value a JSON token; a Python dict as the  *)
(* insertion-ordered sequence of its items.                                *)
(***************************************************************************)
EXTENDS Integers, Sequences, FiniteSets, TLC

VARIABLES
    project_dir,   \* ProjectConfig.project_dir (its last path component)
    config_file,   \* what is on disk at project_dir/.bootstrap-config.json
    config,        \* ProjectConfig.config, the in-memory value
    last,          \* the last ProjectConfig call: what it saw and how it ended
    trip,          \* a load / save / load round trip: stage 1 loaded, 2 saved
                   \* unchanged, 3 loaded again, 0 mapping changed since the load;
                   \* first is the mapping and file the file of the first load,
                   \* clean says that no call of the trip hit an I/O failure
    tpl_call,      \* a call of a template function: [fn, name, theme, nav, footer]
    tpl_out,       \* what the call returned: [done, raised, text]
    hex_input,     \* the argument of a hex_to_rgb call
    rgb,           \* what the call returned: [done, raised, text]
    fs,            \* the file tree: <<directory, relative path>> -> node
    call,          \* the last create_project call: its arguments, the tree
                   \* before it, and how it ended
    http_req,      \* the request an HTTP adapter has answered last
    wire,          \* what the adapter has sent for it: header blocks and bodies
    tmp_files,     \* the temporary files on disk that requests have created
    cli_call,      \* one run of a command-line tool: the command, its arguments
                   \* and what it finds on the machine
    cli_out,       \* how the run ended: [done, raised, printed, result, watcher]
    last_modified, \* LiveReloadHandler.last_modified: path -> time of the last
                   \* delivered event, in ticks
    notified       \* the calls of LiveReloadHandler.callback: path -> their times

cfgVars == <<project_dir, config_file, config, last, trip>>

tplVars == <<tpl_call, tpl_out>>

hexVars == <<hex_input, rgb>>

fsVars == <<fs, call>>

httpVars == <<http_req, wire, tmp_files>>

cliVars == <<cli_call, cli_out>>

reloadVars == <<last_modified, notified>>

\* the state of the parts modelled after the project creators
extVars == <<httpVars, cliVars, reloadVars>>

\* the state of the configuration store, the template functions and the creators
coreVars == <<cfgVars, tplVars, hexVars, fsVars>>

vars == <<coreVars, extVars>>

(***************************************************************************)
(* Bounds of the model.                                                    *)
(***************************************************************************)
\* the largest number of members of a config file drawn in Init
MaxFileKeys == 2

\* the largest number of pieces of a project name or page title
MaxNameLen == 2

\* the largest number of leading '#' of a colour string
MaxHashes == 1

\* the largest number of create calls in one run
MaxCalls == 2

\* the largest number of items of a components list in a request body
MaxComponents == 2

\* the largest number of temporary files followed on disk
MaxTempFiles == 1

\* the latest reading of the clock, in ticks of a quarter of a second
MaxClock == 5

\* the largest number of callback calls followed
MaxNotified == 3

\* the debounce window of LiveReloadHandler, 0.5 s, in ticks
DebounceTicks == 2

(***************************************************************************)
(* The parts of the state a specification does not use stay idle.          *)
(***************************************************************************)
NoText == [done |-> FALSE, raised |-> FALSE, text |-> <<>>]

TplIdle ==
    /\ tpl_call = [fn |-> "none", name |-> <<>>, theme |-> <<>>, nav |-> FALSE,
                   footer |-> FALSE]
    /\ tpl_out = NoText

HexIdle ==
    /\ hex_input = <<>>
    /\ rgb = NoText

FsIdle ==
    /\ fs = <<>>
    /\ call = [op |-> "none", n |-> 0]

HttpIdle ==
    /\ http_req = [adapter |-> "none"]
    /\ wire = <<>>
    /\ tmp_files = 0

CliIdle ==
    /\ cli_call = [tool |-> "none"]
    /\ cli_out = [done |-> FALSE]

ReloadIdle ==
    /\ last_modified = <<>>
    /\ notified = <<>>

ExtIdle == HttpIdle /\ CliIdle /\ ReloadIdle

CfgIdle ==
    /\ project_dir = <<>>
    /\ config_file = [exists |-> FALSE, shape |-> "none", members |-> <<>>, items |-> <<>>]
    /\ config = [type |-> "dict", entries |-> <<>>, items |-> <<>>]
    /\ last = [op |-> "none", io |-> "ok", file_before |-> config_file, raised |-> FALSE]
    /\ trip = [stage |-> 0, first |-> config, file |-> config_file, clean |-> FALSE]

CoreIdle == CfgIdle /\ TplIdle /\ HexIdle /\ FsIdle

(***************************************************************************)
(* Generic helpers.                                                        *)
(***************************************************************************)
Range(s) == {s[i] : i \in 1..Len(s)}

\* the keys of an insertion-ordered dict (a sequence of <<key, value>> items)
Keys(d) == {d[i][1] : i \in 1..Len(d)}

\* d[k] for a key of the dict
Get(d, k) == d[CHOOSE i \in 1..Len(d) : d[i][1] = k][2]

\* Python's dict item assignment d[k] = v: in place for a key of d, appended otherwise
SetItem(d, k, v) ==
    IF k \in Keys(d)
    THEN [i \in 1..Len(d) |-> IF d[i][1] = k THEN <<k, v>> ELSE d[i]]
    ELSE Append(d, <<k, v>>)

\* Python's dict equality: same keys, equal values, whatever the order
DictEq(a, b) ==
    /\ Keys(a) = Keys(b)
    /\ \A k \in Keys(a) : Get(a, k) = Get(b, k)

\* the sequences without repetition over S, of length at most n
RECURSIVE DistinctSeqs(_, _)
DistinctSeqs(S, n) ==
    IF n = 0 THEN {<<>>}
    ELSE LET shorter == DistinctSeqs(S, n - 1)
         IN  shorter \cup
             {Append(p[1], p[2]) : p \in {q \in shorter \X S : q[2] \notin Range(q[1])}}

(***************************************************************************)
(* Python values and JSON tokens.  A Python value is [type, val]; the JSON *)
(* text of a value is [tok, text]; val and text are texts (sequences of    *)
(* pieces).  json.dump writes True as the literal true, a str as a quoted  *)
(* string, a dict as an object, a list as an array; json.load reads them   *)
(* back.                                                                   *)
(***************************************************************************)
PyStr(s) == [type |-> "str", val |-> s]
PyBool(b) == [type |-> "bool", val |-> IF b THEN <<"True">> ELSE <<"False">>]
PyDict(s) == [type |-> "dict", val |-> s]
PyList(s) == [type |-> "list", val |-> s]

\* json.dump of one value, but a bool written the way Python prints it
PyToJsonPythonBool(v) ==
    CASE v.type = "str" -> [tok |-> "string", text |-> v.val]
      [] v.type = "bool" -> [tok |-> "literal", text |-> v.val]
      [] v.type = "dict" -> [tok |-> "object", text |-> v.val]
      [] v.type = "list" -> [tok |-> "array", text |-> v.val]

\* json.dump of one value
PyToJson(v) ==
    CASE v.type = "str" -> [tok |-> "string", text |-> v.val]
      [] v.type = "bool" ->
            [tok |-> "literal", text |-> IF v.val = <<"True">> THEN <<"true">> ELSE <<"false">>]
      [] v.type = "dict" -> [tok |-> "object", text |-> v.val]
      [] v.type = "list" -> [tok |-> "array", text |-> v.val]

\* json.load of one value
JsonToPy(t) ==
    CASE t.tok = "string" -> [type |-> "str", val |-> t.text]
      [] t.tok = "literal" ->
            [type |-> "bool", val |-> IF t.text = <<"true">> THEN <<"True">> ELSE <<"False">>]
      [] t.tok = "object" -> [type |-> "dict", val |-> t.text]
      [] t.tok = "array" -> [type |-> "list", val |-> t.text]

(***************************************************************************)
(* ProjectConfig: the file on disk and the value in memory.                *)
(*   on disk:   [exists, shape, members, items]; shape is what the text    *)
(*              parses to: "object", "array", "string", "scalar", or       *)
(*              "invalid" for text that is no JSON document (a truncated   *)
(*              or empty file included);                                   *)
(*   in memory: [type, entries, items]; type "dict", "list", "str" or      *)
(*              "scalar".                                                  *)
(***************************************************************************)
NoFile == [exists |-> FALSE, shape |-> "none", members |-> <<>>, items |-> <<>>]

InvalidFile == [exists |-> TRUE, shape |-> "invalid", members |-> <<>>, items |-> <<>>]

ObjectFile(m) == [exists |-> TRUE, shape |-> "object", members |-> m, items |-> <<>>]

ItemsFile(shape, it) == [exists |-> TRUE, shape |-> shape, members |-> <<>>, items |-> it]

DictValue(d) == [type |-> "dict", entries |-> d, items |-> <<>>]

\* the default mapping of load_config, in the order the source writes it
default_config(dir) ==
    << <<"name", PyStr(dir)>>,
       <<"version", PyStr(<<"1.0.0">>)>>,
       <<"description", PyStr(<<"Bootstrap project">>)>>,
       <<"author", PyStr(<<>>)>>,
       <<"bootstrap_version", PyStr(<<"5.3.3">>)>>,
       <<"bootstrap_icons", PyBool(TRUE)>>,
       <<"custom_css", PyBool(TRUE)>>,
       <<"custom_js", PyBool(TRUE)>>,
       <<"live_reload", PyBool(TRUE)>>,
       <<"minify_assets", PyBool(FALSE)>>,
       <<"deployment", PyDict(<<"type=static,build_dir=dist">>)>>,
       <<"components", PyList(<<>>)>>,
       <<"dependencies", PyList(<<>>)>> >>

DefaultKeys == Keys(default_config(<<>>))

\* the exception classes that `except Exception` catches
ExceptionClasses ==
    {"OSError", "JSONDecodeError", "UnicodeDecodeError", "TypeError", "AttributeError"}

CaughtByExceptException(exc) == exc \in ExceptionClasses

\* json.load(f): the parsed value, or the exception it raises
json_load(file) ==
    CASE file.shape = "invalid" -> [exc |-> "JSONDecodeError", value |-> DictValue(<<>>)]
      [] file.shape = "object" ->
            [exc |-> "none",
             value |-> DictValue([i \in 1..Len(file.members) |->
                           <<file.members[i][1], JsonToPy(file.members[i][2])>>])]
      [] file.shape = "array" ->
            [exc |-> "none",
             value |-> [type |-> "list", entries |-> <<>>, items |-> file.items]]
      [] file.shape = "string" ->
            [exc |-> "none",
             value |-> [type |-> "str", entries |-> <<>>, items |-> file.items]]
      [] file.shape = "scalar" ->
            [exc |-> "none",
             value |-> [type |-> "scalar", entries |-> <<>>, items |-> <<>>]]

\* `key not in config` of the merge loop: a key test on a dict, a membership test
\* on a list, a substring test on a str (a str is the sequence of its words)
NotIn(key, value) ==
    IF value.type = "dict" THEN key \notin Keys(value.entries)
    ELSE key \notin Range(value.items)

\* the merge loop, but assigning every default key whether or not config has it
RECURSIVE MergeDefaultsOverwriting(_, _, _)
MergeDefaultsOverwriting(value, defaults, i) ==
    IF i > Len(defaults) THEN [exc |-> "none", value |-> value]
    ELSE IF value.type = "scalar" THEN [exc |-> "TypeError", value |-> value]
    ELSE IF value.type = "dict"
         THEN MergeDefaultsOverwriting(
                  DictValue(SetItem(value.entries, defaults[i][1], defaults[i][2])),
                  defaults, i + 1)
         ELSE [exc |-> "TypeError", value |-> value]

\* the merge loop of load_config from default key i on: for each default key that
\* is not in config, config[key] = value.  The `in` test raises TypeError on a
\* scalar; the assignment raises TypeError on a list and on a str.
RECURSIVE MergeDefaults(_, _, _)
MergeDefaults(value, defaults, i) ==
    IF i > Len(defaults) THEN [exc |-> "none", value |-> value]
    ELSE IF value.type = "scalar" THEN [exc |-> "TypeError", value |-> value]
    ELSE IF NotIn(defaults[i][1], value)
         THEN IF value.type = "dict"
              THEN MergeDefaults(
                       DictValue(SetItem(value.entries, defaults[i][1], defaults[i][2])),
                       defaults, i + 1)
              ELSE [exc |-> "TypeError", value |-> value]
         ELSE MergeDefaults(value, defaults, i + 1)

\* the body of the try block of load_config; io is what the file system does
LoadAttempt(file, dir, io) ==
    IF io = "open_fails" THEN [exc |-> "OSError", value |-> DictValue(<<>>)]
    ELSE IF io = "read_fails" THEN [exc |-> "UnicodeDecodeError", value |-> DictValue(<<>>)]
    ELSE LET parsed == json_load(file)
         IN  IF parsed.exc # "none" THEN parsed
             ELSE MergeDefaults(parsed.value, default_config(dir), 1)

\* ProjectConfig.load_config: [value, raised, warned]
load_config(file, dir, io) ==
    IF ~file.exists
    THEN [value |-> DictValue(default_config(dir)), raised |-> FALSE, warned |-> FALSE]
    ELSE LET attempt == LoadAttempt(file, dir, io)
         IN  IF attempt.exc = "none"
             THEN [value |-> attempt.value, raised |-> FALSE, warned |-> FALSE]
             ELSE IF CaughtByExceptException(attempt.exc)
             THEN [value |-> DictValue(default_config(dir)), raised |-> FALSE,
                   warned |-> TRUE]
             ELSE [value |-> DictValue(<<>>), raised |-> TRUE, warned |-> FALSE]

\* json.dump(self.config, f): the document the whole text parses to
json_dump(value) ==
    CASE value.type = "dict" ->
            ObjectFile([i \in 1..Len(value.entries) |->
                           <<value.entries[i][1], PyToJson(value.entries[i][2])>>])
      [] value.type = "list" -> ItemsFile("array", value.items)
      [] value.type = "str" -> ItemsFile("string", value.items)
      [] value.type = "scalar" -> ItemsFile("scalar", <<>>)

\* the try block of save_config, but with nothing written on success
SaveAttemptWritesNothing(value, file, io) ==
    IF io = "open_fails" THEN [exc |-> "OSError", file |-> file]
    ELSE IF io = "write_fails" THEN [exc |-> "OSError", file |-> InvalidFile]
    ELSE [exc |-> "none", file |-> file]

\* the body of the try block of save_config: open(config_file, 'w') creates or
\* truncates the file before anything is written; a failure while json.dump
\* writes leaves the part written so far, which is no JSON document
SaveAttempt(value, file, io) ==
    IF io = "open_fails" THEN [exc |-> "OSError", file |-> file]
    ELSE IF io = "write_fails" THEN [exc |-> "OSError", file |-> InvalidFile]
    ELSE [exc |-> "none", file |-> json_dump(value)]

\* ProjectConfig.save_config: [file, raised, logged]
save_config(value, file, io) ==
    LET attempt == SaveAttempt(value, file, io)
    IN  IF attempt.exc = "none"
        THEN [file |-> attempt.file, raised |-> FALSE, logged |-> FALSE]
        ELSE IF CaughtByExceptException(attempt.exc)
        THEN [file |-> attempt.file, raised |-> FALSE, logged |-> TRUE]
        ELSE [file |-> attempt.file, raised |-> TRUE, logged |-> FALSE]

\* dict.update(kwargs): every item of kwargs assigned in turn
RECURSIVE DictUpdate(_, _, _)
DictUpdate(d, kwargs, i) ==
    IF i > Len(kwargs) THEN d
    ELSE DictUpdate(SetItem(d, kwargs[i][1], kwargs[i][2]), kwargs, i + 1)

\* ProjectConfig.update: [value, file, raised]; a value that is no dict has no
\* update method, and the AttributeError leaves update before save_config runs
update(value, file, kwargs, io) ==
    IF value.type # "dict"
    THEN [value |-> value, file |-> file, raised |-> TRUE]
    ELSE LET merged == DictValue(DictUpdate(value.entries, kwargs, 1))
             saved == save_config(merged, file, io)
         IN  [value |-> merged, file |-> saved.file, raised |-> saved.raised]

(***************************************************************************)
(* The inputs of the configuration store.                                  *)
(***************************************************************************)
ProjectDirs == {<<"my-site">>}

\* the keys a drawn config file may hold: two default keys and a foreign one
FileKeys == {"author", "live_reload", "theme"}

FileTokens ==
    {[tok |-> "string", text |-> <<"user">>], [tok |-> "literal", text |-> <<"false">>]}

FileMappings ==
    UNION {{[i \in 1..Len(ks) |-> <<ks[i], f[i]>>] : f \in [1..Len(ks) -> FileTokens]} :
              ks \in DistinctSeqs(FileKeys, MaxFileKeys)}

\* the elements of a drawn JSON array, or the words of a drawn JSON string
AllDefaultKeys == [i \in 1..Len(default_config(<<>>)) |-> default_config(<<>>)[i][1]]

ItemLists == {<<>>, <<"name">>, AllDefaultKeys}

InitialFiles ==
    {NoFile, InvalidFile, ItemsFile("scalar", <<>>)}
        \cup {ObjectFile(m) : m \in FileMappings}
        \cup {ItemsFile(sh, it) : sh \in {"array", "string"}, it \in ItemLists}

LoadIO == {"ok", "open_fails", "read_fails"}

SaveIO == {"ok", "open_fails", "write_fails"}

UpdateArgs ==
    { << <<"author", PyStr(<<"Ann">>)>> >>,
      << <<"live_reload", PyBool(FALSE)>>, <<"theme", PyStr(<<"dark">>)>> >> }

(***************************************************************************)
(* The configuration store as a state machine.  Init is the state after    *)
(* ProjectConfig.__init__, which loads; Reload is a later construction     *)
(* over the same directory.                                                *)
(***************************************************************************)
Call(op, io, file, raised) ==
    [op |-> op, io |-> io, file_before |-> file, raised |-> raised]

CfgInit ==
    /\ TplIdle /\ HexIdle /\ FsIdle /\ ExtIdle
    /\ project_dir \in ProjectDirs
    /\ config_file \in InitialFiles
    /\ \E io \in LoadIO :
         LET r == load_config(config_file, project_dir, io)
         IN  /\ config = r.value
             /\ last = Call("load", io, config_file, r.raised)
             /\ trip = [stage |-> 1, first |-> r.value, file |-> config_file,
                        clean |-> io = "ok"]

\* ProjectConfig.__init__: self.config = self.load_config()
Reload ==
    \E io \in LoadIO :
        LET r == load_config(config_file, project_dir, io)
        IN  /\ config' = IF r.raised THEN config ELSE r.value
            /\ last' = Call("load", io, config_file, r.raised)
            /\ trip' = IF trip.stage = 2 /\ ~r.raised
                       THEN [trip EXCEPT !.stage = 3, !.clean = @ /\ io = "ok"]
                       ELSE [stage |-> 1, first |-> r.value, file |-> config_file,
                             clean |-> io = "ok"]
            /\ UNCHANGED <<project_dir, config_file, tplVars, hexVars, fsVars, extVars>>

\* ProjectConfig.save_config
SaveConfig ==
    \E io \in SaveIO :
        LET r == save_config(config, config_file, io)
        IN  /\ config_file' = r.file
            /\ last' = Call("save", io, config_file, r.raised)
            /\ trip' = CASE trip.stage \in {1, 2} ->
                               [trip EXCEPT !.stage = 2, !.clean = @ /\ io = "ok"]
                          [] trip.stage = 3 ->
                               [stage |-> 2, first |-> config, file |-> config_file,
                                clean |-> trip.clean /\ io = "ok"]
                          [] trip.stage = 0 -> trip
            /\ UNCHANGED <<project_dir, config, tplVars, hexVars, fsVars, extVars>>

\* ProjectConfig.update(**kwargs)
Update ==
    \E kwargs \in UpdateArgs, io \in SaveIO :
        LET r == update(config, config_file, kwargs, io)
        IN  /\ config' = r.value
            /\ config_file' = r.file
            /\ last' = Call("update", io, config_file, r.raised)
            /\ trip' = [stage |-> 0, first |-> r.value, file |-> config_file,
                        clean |-> FALSE]
            /\ UNCHANGED <<project_dir, tplVars, hexVars, fsVars, extVars>>

CfgNext == Reload \/ SaveConfig \/ Update

SpecCfg == CfgInit /\ [][CfgNext]_vars

(***************************************************************************)
(* Properties of the configuration store (SpecCfg).                        *)
(***************************************************************************)
DefaultValue(k) == Get(default_config(project_dir), k)

FileKeysOf(file) == Keys(file.members)

\* C3: load_config returns exactly the default mapping when the file is absent;
\* when the file is present and parses to a mapping, the result holds every key
\* of the file with the file's value, plus every default key the file lacks with
\* its default value, and no other key.
C3_LoadMergesDefaults ==
    last.op = "load" =>
        /\ ~last.file_before.exists =>
              ~last.raised /\ config = DictValue(default_config(project_dir))
        /\ last.file_before.shape = "object" /\ last.io = "ok" =>
              /\ ~last.raised
              /\ config.type = "dict"
              /\ Keys(config.entries) = FileKeysOf(last.file_before) \cup DefaultKeys
              /\ \A k \in FileKeysOf(last.file_before) :
                    PyToJson(Get(config.entries, k)) = Get(last.file_before.members, k)
              /\ \A k \in DefaultKeys \ FileKeysOf(last.file_before) :
                    Get(config.entries, k) = DefaultValue(k)

\* a load of a file that sets one default key and lacks another
C3_Witness ==
    /\ last.op = "load" /\ last.io = "ok"
    /\ last.file_before.shape = "object"
    /\ "author" \in FileKeysOf(last.file_before)
    /\ "live_reload" \notin FileKeysOf(last.file_before)
    /\ config.type = "dict"
    /\ Get(config.entries, "author") = PyStr(<<"user">>)

\* C4 as claimed: after a load from a file that lacks default keys, the file on
\* disk holds those keys with their default values, written by the load itself.
C4_LoadPersistsDefaults ==
    (/\ last.op = "load" /\ last.io = "ok"
     /\ last.file_before.shape = "object"
     /\ ~(DefaultKeys \subseteq FileKeysOf(last.file_before)))
    => /\ config_file.shape = "object"
       /\ \A k \in DefaultKeys \ FileKeysOf(last.file_before) :
             /\ k \in FileKeysOf(config_file)
             /\ Get(config_file.members, k) = PyToJson(DefaultValue(k))

\* C4 as amended: a load from a file that lacks default keys fills them into the
\* in-memory mapping only and leaves the file exactly as it was; the file holds
\* them with their default values after a later save_config of the unchanged
\* mapping that succeeds.
C4_DefaultsPersistedBySave ==
    /\ (last.op = "load" /\ last.io = "ok" /\ last.file_before.shape = "object")
       => /\ config_file = last.file_before
          /\ \A k \in DefaultKeys \ FileKeysOf(last.file_before) :
                Get(config.entries, k) = DefaultValue(k)
    /\ (/\ trip.stage = 2 /\ trip.file.shape = "object"
        /\ last.op = "save" /\ last.io = "ok")
       => /\ config_file.shape = "object"
          /\ \A k \in DefaultKeys \ FileKeysOf(trip.file) :
                /\ k \in FileKeysOf(config_file)
                /\ Get(config_file.members, k) = PyToJson(DefaultValue(k))

\* a file that lacked live_reload was loaded and the mapping then saved
C4_Witness ==
    /\ trip.stage = 2 /\ trip.file.shape = "object"
    /\ last.op = "save" /\ last.io = "ok"
    /\ "live_reload" \notin FileKeysOf(trip.file)
    /\ "live_reload" \in FileKeysOf(config_file)

\* C5 as claimed: a save_config that hits an I/O failure, while opening the file
\* or while writing the JSON, does not raise and leaves the file with exactly the
\* content it had before the call.
C5_FailedSaveLeavesFile ==
    (last.op = "save" /\ last.io # "ok")
    => (~last.raised /\ config_file = last.file_before)

\* C6: a file is loaded, the unchanged mapping saved, and the file loaded again,
\* none of the three calls hitting an I/O failure: the second load yields the
\* mapping the first load yielded.
C6_RoundTrip ==
    (trip.stage = 3 /\ trip.clean) => config = trip.first

\* a round trip that started from a file with members of its own
C6_Witness ==
    /\ trip.stage = 3 /\ trip.clean
    /\ trip.file.shape = "object"
    /\ Len(trip.file.members) > 0
    /\ last.op = "load"

\* C7 as claimed: a load of a file that exists but cannot be read, or does not
\* parse to a JSON mapping, does not raise and returns exactly the default
\* mapping.
C7_UnusableFileGivesDefault ==
    (/\ last.op = "load"
     /\ last.file_before.exists
     /\ (last.io # "ok" \/ last.file_before.shape # "object"))
    => (~last.raised /\ config = DictValue(default_config(project_dir)))

(***************************************************************************)
(* Text.  A string is the sequence of its pieces: a character, or a piece  *)
(* of literal markup that no input can split.                              *)
(***************************************************************************)
\* Python's `needle in text`
Contains(text, needle) ==
    \E i \in 0..(Len(text) - Len(needle)) :
        \A j \in 1..Len(needle) : text[i + j] = needle[j]

Min(a, b) == IF a < b THEN a ELSE b

\* Python's s[i:j] for 0 <= i <= j: short when s is short
Slice(s, i, j) == SubSeq(s, i + 1, Min(j, Len(s)))

\* Python's s.lstrip(c): every leading c removed
RECURSIVE LStrip(_, _)
LStrip(s, c) == IF s # <<>> /\ Head(s) = c THEN LStrip(Tail(s), c) ELSE s

HexDigits ==
    {"0", "1", "2", "3", "4", "5", "6", "7", "8", "9",
     "a", "b", "c", "d", "e", "f", "A", "B", "C", "D", "E", "F"}

HexVal(c) ==
    CASE c = "0" -> 0 [] c = "1" -> 1 [] c = "2" -> 2 [] c = "3" -> 3
      [] c = "4" -> 4 [] c = "5" -> 5 [] c = "6" -> 6 [] c = "7" -> 7
      [] c = "8" -> 8 [] c = "9" -> 9
      [] c \in {"a", "A"} -> 10 [] c \in {"b", "B"} -> 11
      [] c \in {"c", "C"} -> 12 [] c \in {"d", "D"} -> 13
      [] c \in {"e", "E"} -> 14 [] c \in {"f", "F"} -> 15

\* the fields of a text between separators
RECURSIVE Split(_, _)
Split(text, sep) ==
    IF \A i \in 1..Len(text) : text[i] # sep THEN <<text>>
    ELSE LET i == CHOOSE k \in 1..Len(text) :
                      text[k] = sep /\ \A j \in 1..(k - 1) : text[j] # sep
         IN  <<SubSeq(text, 1, i - 1)>> \o Split(SubSeq(text, i + 1, Len(text)), sep)

DecimalDigits == {"0", "1", "2", "3", "4", "5", "6", "7", "8", "9"}

\* the number a decimal numeral denotes; -1 for a text that is no numeral
RECURSIVE ParseDecimal(_)
ParseDecimal(s) ==
    IF s = <<>> \/ \E i \in 1..Len(s) : s[i] \notin DecimalDigits THEN -1
    ELSE IF Len(s) = 1 THEN HexVal(s[1])
    ELSE 10 * ParseDecimal(SubSeq(s, 1, Len(s) - 1)) + HexVal(s[Len(s)])

\* int(s, 16) for a string of hex digits; -1 stands for the ValueError that an
\* empty string or another character raises
RECURSIVE IntBase16(_)
IntBase16(s) ==
    IF s = <<>> \/ \E i \in 1..Len(s) : s[i] \notin HexDigits THEN -1
    ELSE IF Len(s) = 1 THEN HexVal(s[1])
    ELSE 16 * IntBase16(SubSeq(s, 1, Len(s) - 1)) + HexVal(s[Len(s)])

DecimalDigit(n) ==
    CASE n = 0 -> "0" [] n = 1 -> "1" [] n = 2 -> "2" [] n = 3 -> "3" [] n = 4 -> "4"
      [] n = 5 -> "5" [] n = 6 -> "6" [] n = 7 -> "7" [] n = 8 -> "8" [] n = 9 -> "9"

\* str(n) for n >= 0
RECURSIVE Str(_)
Str(n) == IF n < 10 THEN <<DecimalDigit(n)>> ELSE Str(n \div 10) \o <<DecimalDigit(n % 10)>>

\* hex_to_rgb, but with the green channel read one character early
hex_to_rgb_shifted(hex_color) ==
    LET h == LStrip(hex_color, "#")
        r == IntBase16(Slice(h, 0, 2))
        g == IntBase16(Slice(h, 1, 3))
        b == IntBase16(Slice(h, 4, 6))
    IN  IF r < 0 \/ g < 0 \/ b < 0 THEN [raised |-> TRUE, text |-> <<>>]
        ELSE [raised |-> FALSE, text |-> Str(r) \o <<",">> \o Str(g) \o <<",">> \o Str(b)]

\* handler.hex_to_rgb: [raised, text]
hex_to_rgb(hex_color) ==
    LET h == LStrip(hex_color, "#")
        r == IntBase16(Slice(h, 0, 2))
        g == IntBase16(Slice(h, 2, 4))
        b == IntBase16(Slice(h, 4, 6))
    IN  IF r < 0 \/ g < 0 \/ b < 0 THEN [raised |-> TRUE, text |-> <<>>]
        ELSE [raised |-> FALSE, text |-> Str(r) \o <<",">> \o Str(g) \o <<",">> \o Str(b)]

(***************************************************************************)
(* The template functions.  A name, a title and a theme are texts; the     *)
(* literal markup of a template is cut into pieces at the places where a   *)
(* value is put in, and the markers and opening tags of the navigation and *)
(* footer blocks are pieces of their own.                                  *)
(***************************************************************************)
KnownThemes ==
    {"primary", "success", "info", "warning", "danger", "dark", "purple", "pink", "teal"}

\* the theme_colors table of generate_bootstrap_template and generate_custom_css
theme_colors(t) ==
    CASE t = "primary" -> <<"#", "0", "d", "6", "e", "f", "d">>
      [] t = "success" -> <<"#", "1", "9", "8", "7", "5", "4">>
      [] t = "info" -> <<"#", "0", "d", "c", "a", "f", "0">>
      [] t = "warning" -> <<"#", "f", "f", "c", "1", "0", "7">>
      [] t = "danger" -> <<"#", "d", "c", "3", "5", "4", "5">>
      [] t = "dark" -> <<"#", "2", "1", "2", "5", "2", "9">>
      [] t = "purple" -> <<"#", "6", "f", "4", "2", "c", "1">>
      [] t = "pink" -> <<"#", "d", "6", "3", "3", "8", "4">>
      [] t = "teal" -> <<"#", "2", "0", "c", "9", "9", "7">>

\* the lookup, but with an empty default
primary_color_no_default(theme_color) ==
    IF Len(theme_color) = 1 /\ theme_color[1] \in KnownThemes
    THEN theme_colors(theme_color[1])
    ELSE <<>>

\* primary_color = theme_colors.get(theme_color, theme_colors['primary'])
primary_color(theme_color) ==
    IF Len(theme_color) = 1 /\ theme_color[1] \in KnownThemes
    THEN theme_colors(theme_color[1])
    ELSE theme_colors("primary")

\* nav_html of generate_bootstrap_template
nav_html(name, theme_color, include_nav) ==
    IF include_nav
    THEN <<"<!-- Navigation -->", "<nav", " class=\"navbar navbar-expand-lg navbar-dark bg-">>
         \o theme_color
         \o <<"\"><div class=\"container\"><a class=\"navbar-brand\" href=\"#\">">>
         \o name
         \o <<"</a> ... Home, About, Services, Contact ... ", "</nav>">>
    ELSE <<>>

\* footer_html of generate_bootstrap_template
footer_html(name, include_footer) ==
    IF include_footer
    THEN <<"<!-- Footer -->", "<footer", " class=\"bg-dark text-white py-4 mt-5\"> ... <h5>">>
         \o name
         \o <<"</h5> ... &copy; <year> All rights reserved. ... ", "</footer>">>
    ELSE <<>>

\* handler.generate_bootstrap_template: [raised, text]
generate_bootstrap_template(name, theme_color, include_nav, include_footer) ==
    LET colour == primary_color(theme_color)
        channels == hex_to_rgb(colour)
    IN  IF channels.raised THEN [raised |-> TRUE, text |-> <<>>]
        ELSE [raised |-> FALSE,
              text |->
                <<"<!DOCTYPE html><html lang=\"en\"><head> ... <meta name=\"description\" content=\"">>
                \o name
                \o <<" - Modern Bootstrap template\">", "<title>">>
                \o name
                \o <<"</title>", " ... <style> :root {", "--theme-color: ">>
                \o colour
                \o <<";", "--theme-rgb: ">>
                \o channels.text
                \o <<";", "} ... </style></head>", "<body>">>
                \o nav_html(name, theme_color, include_nav)
                \o <<"<!-- Hero Section --> ... <h1 class=\"display-4 fw-bold mb-3\">Welcome to ">>
                \o name
                \o <<"</h1> ... <!-- Features Section --> ... bg-">>
                \o theme_color
                \o <<" bg-opacity-10 ... text-">>
                \o theme_color
                \o <<" ... <!-- About Section --> ... btn btn-outline-">>
                \o theme_color
                \o <<" btn-lg ... ", "</section>">>
                \o footer_html(name, include_footer)
                \o <<"<!-- Bootstrap JavaScript --> ... <script> ... console.log('">>
                \o name
                \o <<" template loaded successfully!');</script></body></html>">>]

\* handler.generate_custom_css: [raised, text]
generate_custom_css(theme_color) ==
    LET colour == primary_color(theme_color)
        channels == hex_to_rgb(colour)
    IN  IF channels.raised THEN [raised |-> TRUE, text |-> <<>>]
        ELSE [raised |-> FALSE,
              text |->
                <<"/* Custom CSS for Bootstrap Theme */ :root {", "--theme-primary: ">>
                \o colour
                \o <<";", "--theme-rgb: ">>
                \o channels.text
                \o <<";", "--theme-light: rgba(var(--theme-rgb), 0.1)", ";",
                     "--theme-dark: rgba(var(--theme-rgb), 0.9)", ";",
                     "} ... .btn-theme ... .card-theme ... .text-theme ...">>]

\* BootstrapGenerator.create_base_template: text (the brand of its navigation
\* bar and the heading of its footer are fixed words, not the title)
create_base_template(title, include_navbar, include_footer) ==
    <<"<!DOCTYPE html><html lang=\"en\"><head> ... ", "<title>">>
    \o title
    \o <<"</title>", " ... <style> ... </style></head>", "<body>">>
    \o (IF include_navbar
        THEN <<"<!-- Navigation -->", "<nav",
               " class=\"navbar navbar-expand-lg navbar-dark bg-primary\"> ... My Site ... ",
               "</nav>">>
        ELSE <<>>)
    \o <<"<!-- Main Content -->", "<main>", " ... <h1 class=\"display-4 fw-bold mb-3\">Welcome to ">>
    \o title
    \o <<"</h1> ... ", "    </main>">>
    \o (IF include_footer
        THEN <<"<!-- Footer -->", "<footer",
               " class=\"bg-dark text-white py-4 mt-5\"> ... My Website ... <year> ... ",
               "</footer>">>
        ELSE <<>>)
    \o <<"<!-- Bootstrap JavaScript --> ... <script> ... </script></body></html>">>

(***************************************************************************)
(* The template functions as a state machine: Init draws the call, one     *)
(* action per function applies it.                                         *)
(***************************************************************************)
\* the pieces a drawn name is made of: two characters, and the texts that mark
\* the navigation and footer blocks
NamePieces == {"M", " ", "<!-- Navigation -->", "<nav", "<!-- Footer -->", "<footer"}

RECURSIVE SeqsUpTo(_, _)
SeqsUpTo(S, n) ==
    IF n = 0 THEN {<<>>}
    ELSE LET shorter == SeqsUpTo(S, n - 1)
         IN  shorter \cup {Append(q[1], q[2]) : q \in shorter \X S}

Names == SeqsUpTo(NamePieces, MaxNameLen)

\* the nine themes of the table, and theme names that are not in it
Themes ==
    {<<t>> : t \in KnownThemes}
        \cup {<<>>, <<"bogus">>, <<"Danger">>, <<"danger", " ">>,
              <<"<!-- Footer -->", "<footer">>}

TplCall(fn, name, theme, nav, footer) ==
    [fn |-> fn, name |-> name, theme |-> theme, nav |-> nav, footer |-> footer]

TplCalls ==
    {TplCall("generate_bootstrap_template", n, t, a, b) :
        n \in Names, t \in Themes, a \in BOOLEAN, b \in BOOLEAN}
    \cup {TplCall("create_base_template", n, <<>>, a, b) :
        n \in Names, a \in BOOLEAN, b \in BOOLEAN}
    \cup {TplCall("generate_custom_css", <<>>, t, FALSE, FALSE) : t \in Themes}

TplInit ==
    /\ CfgIdle /\ HexIdle /\ FsIdle /\ ExtIdle
    /\ tpl_call \in TplCalls
    /\ tpl_out = NoText

GenerateBootstrapTemplate ==
    /\ tpl_call.fn = "generate_bootstrap_template" /\ ~tpl_out.done
    /\ LET r == generate_bootstrap_template(tpl_call.name, tpl_call.theme,
                                            tpl_call.nav, tpl_call.footer)
       IN  tpl_out' = [done |-> TRUE, raised |-> r.raised, text |-> r.text]
    /\ UNCHANGED <<tpl_call, cfgVars, hexVars, fsVars, extVars>>

GenerateCustomCss ==
    /\ tpl_call.fn = "generate_custom_css" /\ ~tpl_out.done
    /\ LET r == generate_custom_css(tpl_call.theme)
       IN  tpl_out' = [done |-> TRUE, raised |-> r.raised, text |-> r.text]
    /\ UNCHANGED <<tpl_call, cfgVars, hexVars, fsVars, extVars>>

CreateBaseTemplate ==
    /\ tpl_call.fn = "create_base_template" /\ ~tpl_out.done
    /\ tpl_out' = [done |-> TRUE, raised |-> FALSE,
                   text |-> create_base_template(tpl_call.name, tpl_call.nav,
                                                 tpl_call.footer)]
    /\ UNCHANGED <<tpl_call, cfgVars, hexVars, fsVars, extVars>>

TplNext == GenerateBootstrapTemplate \/ GenerateCustomCss \/ CreateBaseTemplate

SpecTpl == TplInit /\ [][TplNext]_vars

HasNavBlock(text) == "<!-- Navigation -->" \in Range(text) /\ "<nav" \in Range(text)

HasFooterBlock(text) == "<!-- Footer -->" \in Range(text) /\ "<footer" \in Range(text)

HtmlCall == tpl_call.fn \in {"generate_bootstrap_template", "create_base_template"}

\* C8 as claimed: for every name, theme and flags the HTML contains the name,
\* contains the navigation block if and only if the nav flag is true, and the
\* footer block if and only if the footer flag is true.
C8_BlocksIffFlags ==
    (tpl_out.done /\ HtmlCall) =>
        /\ ~tpl_out.raised
        /\ Contains(tpl_out.text, tpl_call.name)
        /\ HasNavBlock(tpl_out.text) <=> tpl_call.nav
        /\ HasFooterBlock(tpl_out.text) <=> tpl_call.footer

\* the value of a custom property: the pieces between its name and the next ';'
PropertyValue(text, prop) ==
    IF prop \notin Range(text) THEN <<>>
    ELSE LET i == CHOOSE k \in 1..Len(text) :
                      text[k] = prop /\ \A j \in 1..(k - 1) : text[j] # prop
             rest == SubSeq(text, i + 1, Len(text))
         IN  Split(rest, ";")[1]

AccentProperty == IF tpl_call.fn = "generate_custom_css" THEN "--theme-primary: "
                  ELSE "--theme-color: "

\* C9: in generate_bootstrap_template and generate_custom_css the accent colour
\* property is the table's colour for a theme of the table (danger gives
\* #dc3545) and the primary colour #0d6efd for every other theme name; it is
\* never empty and the call does not fail.
C9_ThemeResolution ==
    (tpl_out.done /\ tpl_call.fn \in {"generate_bootstrap_template", "generate_custom_css"}) =>
        LET accent == PropertyValue(tpl_out.text, AccentProperty)
            theme == tpl_call.theme
        IN  /\ ~tpl_out.raised
            /\ accent # <<>>
            /\ theme = <<"danger">> => accent = <<"#", "d", "c", "3", "5", "4", "5">>
            /\ (Len(theme) = 1 /\ theme[1] \in KnownThemes) => accent = theme_colors(theme[1])
            /\ ~(Len(theme) = 1 /\ theme[1] \in KnownThemes) =>
                  accent = <<"#", "0", "d", "6", "e", "f", "d">>

\* a stylesheet for a theme name that is not in the table
C9_Witness ==
    /\ tpl_out.done
    /\ tpl_call.fn = "generate_custom_css"
    /\ tpl_call.theme = <<"bogus">>
    /\ PropertyValue(tpl_out.text, "--theme-primary: ") = <<"#", "0", "d", "6", "e", "f", "d">>

(***************************************************************************)
(* The file tree.  A path is <<directory, relative path>>; a node is       *)
(* absent, a directory, or a file with its text (the config file: with its *)
(* document).                                                              *)
(***************************************************************************)
Absent == [kind |-> "absent", text |-> <<>>, doc |-> NoFile]

DirNode == [kind |-> "dir", text |-> <<>>, doc |-> NoFile]

FileNode(text) == [kind |-> "file", text |-> text, doc |-> NoFile]

ConfigNode(doc) == [kind |-> "file", text |-> <<>>, doc |-> doc]

RelPaths ==
    {"", "css", "js", "images", "components", "index.html", "README.md", "notes.txt",
     "css/custom.css", "js/custom.js", "css/style.css", "js/script.js",
     ".bootstrap-config.json", "project.json"}

\* the directory a relative path lies in; the project directory lies in a
\* directory that exists (the working directory, or output_dir after __init__)
ParentRel(rel) ==
    CASE rel \in {"css/custom.css", "css/style.css"} -> "css"
      [] rel \in {"js/custom.js", "js/script.js"} -> "js"
      [] OTHER -> ""

\* str.lower() on the characters project names are drawn from
LowerPiece(c) ==
    CASE c = "M" -> "m" [] c = "S" -> "s" [] c = "T" -> "t"
      [] c = "Bootstrap" -> "bootstrap" [] c = "<!DOCTYPE html>" -> "<!doctype html>"
      [] OTHER -> c

Lower(text) == [i \in 1..Len(text) |-> LowerPiece(text[i])]

\* str.replace(a, b) for single characters
Replace(text, a, b) == [i \in 1..Len(text) |-> IF text[i] = a THEN b ELSE text[i]]

\* name.lower().replace(' ', '-')
DerivedDir(name) == Replace(Lower(name), " ", "-")

\* Path.exists, but true of regular files only
PathIsFile(tree, path) == tree[path].kind = "file"

\* Path.exists
PathExists(tree, path) == tree[path].kind # "absent"

Mkdir(rel, exist_ok) == [op |-> "mkdir", rel |-> rel, exist_ok |-> exist_ok, text |-> <<>>]

WriteFile(rel, text) == [op |-> "write", rel |-> rel, exist_ok |-> FALSE, text |-> text]

\* one step on the tree: Path.mkdir, or open(path, 'w') followed by write.
\* fault is the I/O failure that hits the step, if any: opening for writing
\* creates or truncates the file, so a failure while writing leaves it cut.
StepEffect(tree, dir, step, fault) ==
    LET path == <<dir, step.rel>>
        parent == <<dir, ParentRel(step.rel)>>
        orphan == step.rel # "" /\ tree[parent].kind # "dir"
    IN  IF step.op = "mkdir"
        THEN CASE fault # "none" -> [tree |-> tree, exc |-> "OSError"]
               [] fault = "none" /\ orphan -> [tree |-> tree, exc |-> "FileNotFoundError"]
               [] fault = "none" /\ ~orphan /\ tree[path].kind = "absent" ->
                     [tree |-> [tree EXCEPT ![path] = DirNode], exc |-> "none"]
               [] fault = "none" /\ ~orphan /\ tree[path].kind = "dir" /\ step.exist_ok ->
                     [tree |-> tree, exc |-> "none"]
               [] OTHER -> [tree |-> tree, exc |-> "FileExistsError"]
        ELSE CASE fault = "open_fails" -> [tree |-> tree, exc |-> "OSError"]
               [] fault # "open_fails" /\ orphan ->
                     [tree |-> tree, exc |-> "FileNotFoundError"]
               [] fault # "open_fails" /\ ~orphan /\ tree[path].kind = "dir" ->
                     [tree |-> tree, exc |-> "IsADirectoryError"]
               [] fault = "write_fails" /\ ~orphan /\ tree[path].kind # "dir" ->
                     [tree |-> [tree EXCEPT ![path] = FileNode(<<>>)], exc |-> "OSError"]
               [] OTHER ->
                     [tree |-> [tree EXCEPT ![path] = FileNode(step.text)], exc |-> "none"]

\* the steps from step i on, in order, up to the first that raises; the fault
\* hits step fail_at (0: no step)
RECURSIVE RunSteps(_, _, _, _, _, _)
RunSteps(tree, dir, steps, i, fail_at, fault) ==
    IF i > Len(steps) THEN [tree |-> tree, exc |-> "none"]
    ELSE LET r == StepEffect(tree, dir, steps[i], IF i = fail_at THEN fault ELSE "none")
         IN  IF r.exc # "none" THEN r
             ELSE RunSteps(r.tree, dir, steps, i + 1, fail_at, fault)

(***************************************************************************)
(* BootstrapGenerator.create_project and the create command of its main.   *)
(***************************************************************************)
\* output_dir / name.lower().replace(' ', '-')
GenProjectDir(name) == <<"generated/">> \o DerivedDir(name)

\* html_content.replace('    </main>', component_html + '\n    </main>')
InsertComponents(html) ==
    LET i == CHOOSE k \in 1..Len(html) : html[k] = "    </main>"
    IN  SubSeq(html, 1, i - 1)
        \o <<"<!-- Component Library --> ... Cards ... Alerts ... Buttons ... Forms ... ">>
        \o SubSeq(html, i, Len(html))

GenReadme(name) ==
    <<"# ">> \o name
    \o <<" ... A Bootstrap 5 project generated with Python tools. ... ">>
    \o DerivedDir(name) \o <<"/ ... index.html ... css/custom.css ... js/custom.js ... ">>

GenSteps(name, template_type) ==
    << Mkdir("", TRUE), Mkdir("css", TRUE), Mkdir("js", TRUE), Mkdir("images", TRUE),
       WriteFile("index.html",
                 IF template_type = "component-library"
                 THEN InsertComponents(create_base_template(name, TRUE, TRUE))
                 ELSE create_base_template(name, TRUE, TRUE)),
       WriteFile("css/custom.css", <<"/* Custom CSS for your project */ ... ">>),
       WriteFile("js/custom.js", <<"// Custom JavaScript for your project ... ">>),
       WriteFile("README.md", GenReadme(name)) >>

\* the directory a path lies in: the path up to its last separator
RECURSIVE ParentDir(_)
ParentDir(dir) ==
    IF dir = <<>> THEN <<>>
    ELSE IF dir[Len(dir)] = "/" THEN SubSeq(dir, 1, Len(dir) - 1)
    ELSE IF Len(dir) = 1 THEN dir
    ELSE ParentDir(SubSeq(dir, 1, Len(dir) - 1))

\* the directories the tree follows are those of the projects; any other path
\* below output_dir is absent
IsDir(tree, dir) ==
    \/ dir = <<"generated/">>
    \/ <<dir, "">> \in DOMAIN tree /\ tree[<<dir, "">>].kind = "dir"

\* BootstrapGenerator.create_project: [tree, exc]; it returns project_dir.
\* project_dir.mkdir(exist_ok=True) makes no parents: below a directory that
\* is missing it raises FileNotFoundError
gen_create_project(tree, name, template_type, fail_at, fault) ==
    IF ~IsDir(tree, ParentDir(GenProjectDir(name)))
    THEN [tree |-> tree,
          exc |-> IF fail_at = 1 /\ fault # "none" THEN "OSError" ELSE "FileNotFoundError"]
    ELSE RunSteps(tree, GenProjectDir(name), GenSteps(name, template_type), 1, fail_at,
                  fault)

\* the create branch of main: "created" when "Project created successfully!" is
\* printed, "raised" when the exception of create_project leaves main; there is
\* no branch that reports an existing directory
gen_main_create(tree, name, template_type, fail_at, fault) ==
    LET r == gen_create_project(tree, name, template_type, fail_at, fault)
    IN  [tree |-> r.tree, outcome |-> IF r.exc = "none" THEN "created" ELSE "raised"]

(***************************************************************************)
(* The inputs of the project creators.                                     *)
(***************************************************************************)
ProjNames ==
    { <<"M", "y", " ", "S", "i", "t", "e">>,
      <<"m", "y", "-", "s", "i", "t", "e">> }

\* a name with a path separator in it
SlashName == <<"T", "/", "S">>

GenNames == ProjNames \cup {SlashName}

GenDirs == {GenProjectDir(n) : n \in ProjNames}

OldText == <<"<h1>my own page</h1>">>

\* what a project directory may look like before a call: nothing there, an
\* empty directory, a directory with files of the user, a regular file
EarlierTrees ==
    { [rel \in RelPaths |-> Absent],
      [rel \in RelPaths |-> IF rel = "" THEN DirNode ELSE Absent],
      [rel \in RelPaths |->
          CASE rel = "" -> DirNode
            [] rel \in {"index.html", "notes.txt"} -> FileNode(OldText)
            [] OTHER -> Absent],
      [rel \in RelPaths |->
          CASE rel \in {"", "css"} -> DirNode
            [] rel \in {"css/custom.css", "css/style.css", "README.md"} -> FileNode(OldText)
            [] OTHER -> Absent],
      [rel \in RelPaths |-> IF rel = "" THEN FileNode(OldText) ELSE Absent] }

TreesOver(dirs) ==
    {[p \in dirs \X RelPaths |-> t[p[1]][p[2]]] : t \in [dirs -> EarlierTrees]}

\* where an I/O failure may hit a run of steps: nowhere, at any step before it
\* changes anything, or at a write after the file was opened
FaultPlans(steps) ==
    {<<0, "none">>}
        \cup {<<i, "open_fails">> : i \in 1..Len(steps)}
        \cup {<<i, "write_fails">> : i \in {k \in 1..Len(steps) : steps[k].op = "write"}}

HoldsFiles(tree, dir) ==
    /\ <<dir, "">> \in DOMAIN tree
    /\ tree[<<dir, "">>].kind = "dir"
    /\ \E rel \in RelPaths \ {""} : tree[<<dir, rel>>].kind = "file"

\* the record of a call: n counts the calls so far, existed and held_files say
\* what was at the target directory when the call began, fault the I/O failure
\* that hit it
CreateCall(op, n, name, template, dir, tree, fault, outcome) ==
    [op |-> op, n |-> n, name |-> name, template |-> template, dir |-> dir,
     fault |-> fault,
     existed |-> /\ op # "none"
                 /\ <<dir, "">> \in DOMAIN tree
                 /\ tree[<<dir, "">>].kind # "absent",
     held_files |-> op # "none" /\ HoldsFiles(tree, dir),
     outcome |-> outcome]

\* the state after BootstrapGenerator.__init__ has made sure of output_dir
GenInit ==
    /\ CfgIdle /\ TplIdle /\ HexIdle /\ ExtIdle
    /\ fs \in TreesOver(GenDirs)
    /\ call = CreateCall("none", 0, <<>>, "none", <<>>, fs, "none", "none")

\* bootstrap_generator.py create --name <name> --type <type>
GenCreate ==
    /\ call.n < MaxCalls
    /\ \E name \in GenNames, template_type \in {"basic", "component-library"},
          plan \in FaultPlans(GenSteps(<<>>, "basic")) :
           LET r == gen_main_create(fs, name, template_type, plan[1], plan[2])
           IN  /\ fs' = r.tree
               /\ call' = CreateCall("create", call.n + 1, name, template_type,
                                     GenProjectDir(name), fs, plan[2], r.outcome)
               /\ UNCHANGED <<cfgVars, tplVars, hexVars, extVars>>

GenNext == GenCreate

SpecGen == GenInit /\ [][GenNext]_vars

\* the files of the directory of the call that is being made are left as they are
FilesOfTargetKept ==
    \A rel \in RelPaths :
        (<<call'.dir, rel>> \in DOMAIN fs /\ fs[<<call'.dir, rel>>].kind = "file") =>
            fs'[<<call'.dir, rel>>] = fs[<<call'.dir, rel>>]

\* C2 as claimed: a create for a name whose target directory exists and holds
\* files leaves every one of those files as it was and ends with a distinct
\* "already exists" outcome, not with a success.
C2_ExistingProjectKept ==
    [][(call'.op = "create" /\ call'.held_files) =>
          (FilesOfTargetKept /\ call'.outcome = "already exists")]_vars

\* C18: for every project name, `create --name <name> --type basic` produces
\* the directory named after the name lowercased with spaces replaced by '-'
\* under generated/, holding index.html, css/custom.css, js/custom.js and
\* README.md, each non-empty, with index.html containing the name.  Stated for
\* the runs that nothing of the machine hinders: no I/O failure, and nothing
\* at the target path before.
C18_BasicProjectProduced ==
    (/\ call.op = "create" /\ call.template = "basic"
     /\ call.fault = "none" /\ ~call.existed)
    => LET dir == <<"generated/">> \o Replace(Lower(call.name), " ", "-")
       IN  /\ <<dir, "">> \in DOMAIN fs
           /\ fs[<<dir, "">>].kind = "dir"
           /\ \A rel \in {"index.html", "css/custom.css", "js/custom.js", "README.md"} :
                 fs[<<dir, rel>>].kind = "file" /\ fs[<<dir, rel>>].text # <<>>
           /\ Contains(fs[<<dir, "index.html">>].text, call.name)

(***************************************************************************)
(* AdvancedProjectManager.create_project.                                  *)
(***************************************************************************)
\* Path(name.lower().replace(' ', '-')), relative to the working directory
AdvProjectDir(name) == DerivedDir(name)

\* the templates directory as ensure_templates_dir leaves a fresh one
TemplatesPresent == {"basic"}

\* bool(v) for a value of the config
Truthy(v) == IF v.type = "bool" THEN v.val = <<"True">> ELSE v.val # <<>>

\* {{ key }}: str of the value, nothing for a name the context does not hold
JinjaValue(d, k) == IF k \in Keys(d) THEN Get(d, k).val ELSE <<>>

\* {% if key %}body{% endif %}
JinjaIf(d, k, body) == IF k \in Keys(d) /\ Truthy(Get(d, k)) THEN body ELSE <<>>

\* template.render(**config) of templates/basic.html
render_basic(d) ==
    <<"<!DOCTYPE html>", "<title>">> \o JinjaValue(d, "title") \o <<"</title>">>
    \o <<"bootstrap@">> \o JinjaValue(d, "bootstrap_version") \o <<"/dist/css/bootstrap.min.css">>
    \o JinjaIf(d, "bootstrap_icons", <<"<link href=bootstrap-icons.css>">>)
    \o JinjaIf(d, "custom_css", <<"<link href=css/style.css>">>)
    \o <<"<body>", "<h1>">> \o JinjaValue(d, "title") \o <<"</h1>">>
    \o <<"<p class=lead>">> \o JinjaValue(d, "description") \o <<"</p>">>
    \o <<"Welcome to ">> \o JinjaValue(d, "title")
    \o <<"Bootstrap ">> \o JinjaValue(d, "bootstrap_version")
    \o JinjaIf(d, "bootstrap_icons", <<"Bootstrap Icons">>)
    \o JinjaIf(d, "custom_css", <<"Custom CSS">>)
    \o <<"bootstrap@">> \o JinjaValue(d, "bootstrap_version") \o <<"/dist/js/bootstrap.bundle.min.js">>
    \o JinjaIf(d, "custom_js", <<"<script src=js/script.js>">>)
    \o JinjaIf(d, "live_reload", <<"<script>ws://localhost:8081</script>">>)
    \o <<"</body>", "</html>">>

\* generate_from_template: a template that is not there falls back to basic.html
generate_from_template(template_name, d) ==
    LET template_file == IF template_name \in TemplatesPresent THEN template_name ELSE "basic"
    IN  IF template_file = "basic" THEN render_basic(d) ELSE <<>>

\* create_package_file: json.dump of package_data
package_data(dir, d) ==
    <<"{name: ">> \o Get(d, "name").val \o <<", version: ">> \o Get(d, "version").val
    \o <<", description: ">> \o Get(d, "description").val
    \o <<", author: ">> \o Get(d, "author").val
    \o <<", scripts: dev ">> \o dir \o <<", features, created, dependencies}">>

\* create_readme
readme_content(dir, d) ==
    <<"# ">> \o Get(d, "name").val \o <<" ... ">> \o Get(d, "description").val
    \o <<" ... python project_manager.py dev ">> \o dir \o <<" ... ">>

\* project_dir.mkdir() and the four directories in it, none with exist_ok
AdvDirSteps ==
    << Mkdir("", FALSE), Mkdir("css", FALSE), Mkdir("js", FALSE), Mkdir("images", FALSE),
       Mkdir("components", FALSE) >>

\* the files written after the config, in the order create_project writes them
AdvFileSteps(dir, template, d) ==
    << WriteFile("index.html", generate_from_template(template, d)),
       WriteFile("css/style.css", <<"/* Custom CSS for Bootstrap Project */ ... ">>),
       WriteFile("js/script.js", <<"// Custom JavaScript for Bootstrap Project ... ">>),
       WriteFile("project.json", package_data(dir, d)),
       WriteFile("README.md", readme_content(dir, d)) >>

\* every step of create_project that touches the tree, save_config among them
AdvSteps ==
    AdvDirSteps \o <<WriteFile(".bootstrap-config.json", <<>>)>>
        \o AdvFileSteps(<<>>, "basic", default_config(<<>>))

\* the keyword arguments of config.update(name=..., description=..., author=...,
\* **options) where the call can be made
UpdateKwargs(name, options) ==
    << <<"name", PyStr(name)>>,
       <<"description", PyStr(<<"Bootstrap project: ">> \o name)>>,
       <<"author", PyStr(<<>>)>> >> \o options

\* a keyword given both by name and through **options: the call is a TypeError
DuplicateKeyword(options) == Keys(options) \cap {"name", "description", "author"} # {}

adv_create_project_resuming(tree, name, template, options, fail_at, fault) ==
    LET dir == AdvProjectDir(name)
    IN  IF tree[<<dir, "index.html">>].kind = "file" \/ tree[<<dir, "">>].kind = "file"
        THEN [tree |-> tree, outcome |-> "False"]
        ELSE [tree |-> [tree EXCEPT ![<<dir, "">>] = DirNode,
                                    ![<<dir, "index.html">>] =
                                        FileNode(generate_from_template(template, options))],
              outcome |-> "True"]

\* create_project: [tree, outcome], outcome "False" or "True" for the value
\* returned and "raised" for an exception that leaves the method
adv_create_project(tree, name, template, options, fail_at, fault) ==
    LET dir == AdvProjectDir(name)
    IN  IF PathExists(tree, <<dir, "">>)
        THEN [tree |-> tree, outcome |-> "False"]
        ELSE LET made == RunSteps(tree, dir, AdvDirSteps, 1, fail_at, fault)
                 loaded == load_config(made.tree[<<dir, ".bootstrap-config.json">>].doc,
                                       dir, "ok")
                 at_save == Len(AdvDirSteps) + 1
                 updated == update(loaded.value, NoFile, UpdateKwargs(name, options),
                                   IF fail_at = at_save THEN fault ELSE "ok")
                 with_config ==
                     [made.tree EXCEPT ![<<dir, ".bootstrap-config.json">>] =
                         IF updated.file.exists THEN ConfigNode(updated.file) ELSE Absent]
                 written == RunSteps(with_config, dir,
                                     AdvFileSteps(dir, template, updated.value.entries),
                                     1, fail_at - at_save, fault)
             IN  CASE made.exc # "none" -> [tree |-> made.tree, outcome |-> "raised"]
                   [] made.exc = "none" /\ DuplicateKeyword(options) ->
                         [tree |-> made.tree, outcome |-> "raised"]
                   [] made.exc = "none" /\ ~DuplicateKeyword(options) /\ updated.raised ->
                         [tree |-> with_config, outcome |-> "raised"]
                   [] OTHER ->
                         [tree |-> written.tree,
                          outcome |-> IF written.exc = "none" THEN "True" ELSE "raised"]

AdvDirs == {AdvProjectDir(n) : n \in ProjNames}

AdvTemplates == {"basic", "landing"}

\* no options, an option that is no default key, and the options main passes
AdvOptions ==
    { <<>>,
      << <<"theme", PyStr(<<"dark">>)>> >>,
      << <<"bootstrap_icons", PyBool(FALSE)>>, <<"author", PyStr(<<"Ann">>)>>,
         <<"description", PyStr(<<"Bootstrap project: ">>)>> >> }

\* the state after AdvancedProjectManager.__init__
AdvInit ==
    /\ CfgIdle /\ TplIdle /\ HexIdle /\ ExtIdle
    /\ fs \in TreesOver(AdvDirs)
    /\ call = CreateCall("none", 0, <<>>, "none", <<>>, fs, "none", "none")

\* manager.create_project(name, template, **options)
AdvCreate ==
    /\ call.n < MaxCalls
    /\ \E name \in ProjNames, template \in AdvTemplates, options \in AdvOptions,
          plan \in FaultPlans(AdvSteps) :
           LET r == adv_create_project(fs, name, template, options, plan[1], plan[2])
           IN  /\ fs' = r.tree
               /\ call' = CreateCall("create_project", call.n + 1, name, template,
                                     AdvProjectDir(name), fs, plan[2], r.outcome)
               /\ UNCHANGED <<cfgVars, tplVars, hexVars, extVars>>

AdvNext == AdvCreate

SpecAdv == AdvInit /\ [][AdvNext]_vars

\* C1: a create_project call for a name whose derived directory exists returns
\* False and leaves the whole tree as it was, whatever the name, the template
\* and the options.
C1_ExistingDirRefused ==
    [][(call'.op = "create_project" /\ call'.existed) =>
          (call'.outcome = "False" /\ fs' = fs)]_vars

\* a second call over the project an earlier call has created, refused
C1_Witness ==
    /\ call.op = "create_project" /\ call.n = 2
    /\ call.existed /\ call.held_files
    /\ call.outcome = "False"
    /\ fs[<<call.dir, "index.html">>].kind = "file"
    /\ fs[<<call.dir, "README.md">>].kind = "file"

\* the last call raised after it had made the project directory
FailedAfterMkdir ==
    /\ call.op = "create_project" /\ call.outcome = "raised" /\ ~call.existed
    /\ fs[<<call.dir, "">>].kind = "dir"

\* C28: if create_project fails at any step after it created the project
\* directory, every later create_project call with the same name returns
\* False without writing any file.  A project directory that is there stays
\* there over every later call (it is never cleaned up), and every call that
\* is aimed at it, the call right after the failed one included, returns
\* False and leaves the whole tree as it was (it is never completed).
C28_PartialProjectStays ==
    [][/\ (FailedAfterMkdir /\ AdvProjectDir(call'.name) = AdvProjectDir(call.name))
              => (call'.outcome = "False" /\ fs' = fs)
       /\ \A d \in AdvDirs :
              fs[<<d, "">>].kind = "dir"
              => /\ fs'[<<d, "">>].kind = "dir"
                 /\ call'.dir = d => (call'.outcome = "False" /\ fs' = fs)]_vars

\* the second call found the five directories of a first call that failed
\* before it wrote a file, returned False and left them without a page
C28_Witness ==
    /\ call.op = "create_project" /\ call.n = 2 /\ call.existed
    /\ call.outcome = "False"
    /\ \A rel \in {"css", "js", "images", "components"} : fs[<<call.dir, rel>>].kind = "dir"
    /\ \A rel \in RelPaths : fs[<<call.dir, rel>>].kind # "file"

\* the names templates/basic.html refers to, in {{ }} and in {% if %}
basic_placeholders ==
    {"title", "description", "bootstrap_version", "bootstrap_icons", "custom_css",
     "custom_js", "live_reload"}

\* the call got as far as generate_from_template: the directories were made
\* and config.update has saved the mapping it then passes on.  Without an I/O
\* failure the saved document holds the keys of that mapping.
TemplateRendered ==
    /\ call.op = "create_project" /\ ~call.existed /\ call.fault = "none"
    /\ fs[<<call.dir, ".bootstrap-config.json">>].doc.exists

ConfigKeysPassed == FileKeysOf(fs[<<call.dir, ".bootstrap-config.json">>].doc)

\* C21: rendering a template with a configuration that lacks a key the
\* template refers to raises an error and produces no output: the call does
\* not return True and no index.html is written; the placeholder is never
\* rendered as empty text.
C21_MissingKeyRaises ==
    (TemplateRendered /\ ~(basic_placeholders \subseteq ConfigKeysPassed))
    => /\ call.outcome = "raised"
       /\ fs[<<call.dir, "index.html">>].kind = "absent"

\* C22: every name the basic.html template refers to is a key of the mapping
\* that create_project passes to generate_from_template.
C22_PlaceholdersAreConfigKeys ==
    TemplateRendered => basic_placeholders \subseteq ConfigKeysPassed

(***************************************************************************)
(* hex_to_rgb as a state machine: Init draws the argument, the action      *)
(* applies the function.                                                   *)
(***************************************************************************)
\* the digits drawn for each of the six positions
HexSample == {"0", "7", "a", "F"}

Hashes(n) == [i \in 1..n |-> "#"]

HexInputs == {Hashes(n) \o d : n \in 0..MaxHashes, d \in [1..6 -> HexSample]}

HexInit ==
    /\ CfgIdle /\ TplIdle /\ FsIdle /\ ExtIdle
    /\ hex_input \in HexInputs
    /\ rgb = NoText

HexToRgb ==
    /\ ~rgb.done
    /\ LET r == hex_to_rgb(hex_input)
       IN  rgb' = [done |-> TRUE, raised |-> r.raised, text |-> r.text]
    /\ UNCHANGED <<hex_input, cfgVars, tplVars, fsVars, extVars>>

HexNext == HexToRgb

SpecHex == HexInit /\ [][HexNext]_vars

\* C10: for a 6-digit hex colour, with or without a leading '#', hex_to_rgb
\* returns three comma-separated decimal numerals, each in 0..255, in red, green,
\* blue order: writing each as two hex digits gives back the six digits.
C10_HexRoundTrip ==
    rgb.done =>
        /\ ~rgb.raised
        /\ LET digits == SubSeq(hex_input, Len(hex_input) - 5, Len(hex_input))
               parts == Split(rgb.text, ",")
           IN  /\ Len(parts) = 3
               /\ \A i \in 1..3 :
                     LET v == ParseDecimal(parts[i])
                     IN  /\ v \in 0..255
                         /\ v \div 16 = HexVal(digits[2 * i - 1])
                         /\ v % 16 = HexVal(digits[2 * i])

\* #FFa007 was converted to 255,160,7
C10_Witness ==
    /\ rgb.done
    /\ hex_input = <<"#", "F", "F", "a", "0", "0", "7">>
    /\ rgb.text = <<"2", "5", "5", ",", "1", "6", "0", ",", "7">>

(***************************************************************************)
(* The HTTP adapters.  A JSON value of a request is [t, s, items]: a       *)
(* string with its text, a number, or a list with its items; a parsed      *)
(* object is a dict of such values.                                        *)
(***************************************************************************)
JStr(s) == [items |-> <<>>, s |-> s, t |-> "str"]

JNum == [items |-> <<>>, s |-> <<"7">>, t |-> "num"]

JList(items) == [items |-> items, s |-> <<>>, t |-> "list"]

\* the literals true and false, and an object with its members
JLit(s) == [items |-> <<>>, s |-> s, t |-> "lit"]

JDict(members) == [items |-> members, s |-> <<>>, t |-> "dict"]

\* d.get(k, default)
DictGet(d, k, default) == IF k \in Keys(d) THEN Get(d, k) ELSE default

\* str.title() on the theme names requests are drawn from
Title(text) ==
    [i \in 1..Len(text) |->
        CASE text[i] = "danger" -> "Danger"
          [] text[i] = "primary" -> "Primary"
          [] text[i] = "bogus" -> "Bogus"
          [] OTHER -> text[i]]

\* x in v, but for a list true of an item that holds x
InValueLoose(x, v) ==
    CASE v.t = "list" ->
            [exc |-> "none",
             val |-> \E i \in 1..Len(v.items) :
                        v.items[i].t = "str" /\ Contains(v.items[i].s, x)]
      [] v.t = "str" -> [exc |-> "none", val |-> Contains(v.s, x)]
      [] OTHER -> [exc |-> "TypeError", val |-> FALSE]

\* x in v: an equal item of a list, a substring of a string; a number is no
\* container
InValue(x, v) ==
    CASE v.t = "list" ->
            [exc |-> "none", val |-> \E i \in 1..Len(v.items) : v.items[i] = JStr(x)]
      [] v.t = "str" -> [exc |-> "none", val |-> Contains(v.s, x)]
      [] OTHER -> [exc |-> "TypeError", val |-> FALSE]

\* ", ".join(v): the items must all be strings; a string is joined by its characters
RECURSIVE JoinItems(_, _)
JoinItems(items, i) ==
    IF i > Len(items) THEN <<>>
    ELSE (IF i > 1 THEN <<", ">> ELSE <<>>) \o items[i].s \o JoinItems(items, i + 1)

Join(v) ==
    CASE v.t = "list" /\ \A i \in 1..Len(v.items) : v.items[i].t = "str" ->
            [exc |-> "none", text |-> JoinItems(v.items, 1)]
      [] v.t = "str" -> [exc |-> "none", text |-> v.s]
      [] OTHER -> [exc |-> "TypeError", text |-> <<>>]

\* handler.generate_readme of the theme package: [exc, text]; the f-string takes
\* theme_color.title(), then the joined components, then name.lower()
theme_readme(name, theme_color, components) ==
    CASE theme_color.t # "str" -> [exc |-> "AttributeError", text |-> <<>>]
      [] theme_color.t = "str" /\ Join(components).exc # "none" ->
            [exc |-> "TypeError", text |-> <<>>]
      [] theme_color.t = "str" /\ Join(components).exc = "none" /\ name.t # "str" ->
            [exc |-> "AttributeError", text |-> <<>>]
      [] OTHER ->
            [exc |-> "none",
             text |-> <<"# ">> \o name.s \o <<" ... - ">> \o Title(theme_color.s)
                      \o <<" theme - Modern components: ">> \o Join(components).text
                      \o <<" ... ">> \o DerivedDir(name.s) \o <<"/ ... ">>]

\* the component files of the package, in the order they are tested
PackageComponents == <<"navbar", "cards", "buttons">>

component_html(c, theme_color) ==
    <<"<!-- ", c, " component --> ... ">> \o theme_color.s \o <<" ... ">>

\* the writestr calls for the components from the i-th on: [exc, entries]
RECURSIVE ComponentEntries(_, _, _)
ComponentEntries(components, theme_color, i) ==
    IF i > Len(PackageComponents) THEN [exc |-> "none", entries |-> <<>>]
    ELSE LET c == PackageComponents[i]
             test == InValue(<<c>>, components)
             rest == ComponentEntries(components, theme_color, i + 1)
             entry == IF test.val
                      THEN << <<(<<"components/", c, ".html">>),
                                component_html(c, theme_color)>> >>
                      ELSE <<>>
         IN  IF test.exc # "none" THEN [exc |-> test.exc, entries |-> <<>>]
             ELSE [exc |-> rest.exc, entries |-> entry \o rest.entries]

\* handler.generate_theme_package: [exc, entries, tmp]; tmp counts the temporary
\* files it creates with delete=False and never removes
generate_theme_package(name, theme_color, components) ==
    LET html == generate_bootstrap_template(name.s, theme_color.s, TRUE, TRUE)
        css == generate_custom_css(theme_color.s)
        first == << <<(<<"index.html">>), html.text>>,
                    <<(<<"css/custom.css">>), css.text>>,
                    <<(<<"js/custom.js">>),
                      <<"// Custom JavaScript for Bootstrap Theme ... ">>>> >>
        readme == theme_readme(name, theme_color, components)
        chosen == ComponentEntries(components, theme_color, 1)
    IN  CASE html.raised \/ css.raised -> [exc |-> "ValueError", entries |-> <<>>, tmp |-> 1]
          [] ~(html.raised \/ css.raised) /\ readme.exc # "none" ->
                [exc |-> readme.exc, entries |-> first, tmp |-> 1]
          [] ~(html.raised \/ css.raised) /\ readme.exc = "none" /\ chosen.exc # "none" ->
                [exc |-> chosen.exc, entries |-> first \o << <<(<<"README.md">>), readme.text>> >>,
                 tmp |-> 1]
          [] OTHER ->
                [exc |-> "none",
                 entries |-> first \o << <<(<<"README.md">>), readme.text>> >> \o chosen.entries,
                 tmp |-> 1]

(***************************************************************************)
(* What an adapter sends: header blocks (send_response, send_header,       *)
(* end_headers) and bodies (wfile.write), in the order they are sent.      *)
(***************************************************************************)
HeaderBlock(status, headers) ==
    [headers |-> headers, kind |-> "none", members |-> <<>>, part |-> "head",
     status |-> status]

BodyBlock(kind, members) ==
    [headers |-> <<>>, kind |-> kind, members |-> members, part |-> "body", status |-> 0]

AllowOrigin == <<"Access-Control-Allow-Origin", "*">>

\* str(e) for the exceptions of the model
ErrorText(exc) == <<exc, ": ...">>

\* what a handler has done: what it sent, the temporary files it left, and the
\* exception its top-level except clause caught ("none": none)
Handled(sent, tmp, exc) == [exc |-> exc, tmp |-> tmp, wire |-> sent]

\* send_error_response, but without the CORS header
theme_error_response_bare(error_message) ==
    << HeaderBlock(500, <<<<"Content-Type", "application/json">>>>),
       BodyBlock("json", << <<"success", JLit(<<"false">>)>>,
                            <<"error", JStr(error_message)>>,
                            <<"timestamp", JStr(<<"<now>">>)>> >>) >>

\* handler.send_error_response of the template and theme adapter
theme_error_response(error_message) ==
    << HeaderBlock(500, <<<<"Content-Type", "application/json">>, AllowOrigin>>),
       BodyBlock("json", << <<"success", JLit(<<"false">>)>>,
                            <<"error", JStr(error_message)>>,
                            <<"timestamp", JStr(<<"<now>">>)>> >>) >>

\* the body of a POST as the theme adapter reads it: [exc, data]; without a
\* Content-Length, or with one of 0, nothing is parsed
theme_read_body(req) ==
    CASE req.length = "bad" -> [exc |-> "ValueError", data |-> <<>>]
      [] req.length = "absent" \/ (req.length = "ok" /\ req.body = "empty") ->
            [exc |-> "none", data |-> <<>>]
      [] req.length = "ok" /\ req.body = "malformed" ->
            [exc |-> "JSONDecodeError", data |-> <<>>]
      [] req.length = "ok" /\ req.body = "array" ->
            [exc |-> "AttributeError", data |-> <<>>]
      [] OTHER -> [exc |-> "none", data |-> req.data]

DefaultComponents == JList(<<JStr(<<"navbar">>), JStr(<<"cards">>), JStr(<<"buttons">>)>>)

\* handler.do_POST of the theme adapter
theme_do_POST(req) ==
    LET read == theme_read_body(req)
        template_name == DictGet(read.data, "name", JStr(<<"Bootstrap Template">>))
        theme_color == DictGet(read.data, "theme", JStr(<<"primary">>))
        components == DictGet(read.data, "components", DefaultComponents)
        package == generate_theme_package(template_name, theme_color, components)
        ok_head == HeaderBlock(200, <<<<"Content-Type", "application/zip">>,
                              <<"Content-Disposition", "attachment">>, AllowOrigin,
                              <<"Content-Length", "len(zip_data)">>>>)
    IN  CASE read.exc # "none" ->
                Handled(theme_error_response(ErrorText(read.exc)), 0, read.exc)
          [] read.exc = "none" /\ package.exc # "none" ->
                Handled(theme_error_response(ErrorText(package.exc)), package.tmp,
                        package.exc)
          [] read.exc = "none" /\ package.exc = "none" /\ req.fault = "body_write_fails" ->
                Handled(<<ok_head>> \o theme_error_response(ErrorText("OSError")),
                        package.tmp, "OSError")
          [] OTHER ->
                Handled(<<ok_head, BodyBlock("zip", package.entries)>>, package.tmp, "none")

\* the first value of a query parameter, or the default
QueryGet(query, k, default) == IF k \in Keys(query) THEN Get(query, k) ELSE default

\* handler.do_GET of the template adapter
theme_do_GET(req) ==
    LET template_name == QueryGet(req.query, "name", <<"Bootstrap Template">>)
        theme_color == QueryGet(req.query, "theme", <<"primary">>)
        include_nav == Lower(QueryGet(req.query, "nav", <<"t", "r", "u", "e">>))
                           = <<"t", "r", "u", "e">>
        include_footer == Lower(QueryGet(req.query, "footer", <<"t", "r", "u", "e">>))
                              = <<"t", "r", "u", "e">>
        template_data == generate_bootstrap_template(template_name, theme_color,
                                                     include_nav, include_footer)
        ok_head == HeaderBlock(200, <<<<"Content-Type", "application/json">>, AllowOrigin,
                                     <<"Cache-Control", "s-maxage=3600">>>>)
        response_data ==
            << <<"success", JLit(<<"true">>)>>,
               <<"template", JStr(template_data.text)>>,
               <<"generated_at", JStr(<<"<now>">>)>>,
               <<"parameters",
                 JDict(<< <<"name", JStr(template_name)>>, <<"theme", JStr(theme_color)>>,
                          <<"navigation", JLit(IF include_nav THEN <<"true">> ELSE <<"false">>)>>,
                          <<"footer", JLit(IF include_footer THEN <<"true">> ELSE <<"false">>)>> >>)>> >>
    IN  CASE template_data.raised ->
                Handled(theme_error_response(ErrorText("ValueError")), 0, "ValueError")
          [] ~template_data.raised /\ req.fault = "body_write_fails" ->
                Handled(<<ok_head>> \o theme_error_response(ErrorText("OSError")),
                        0, "OSError")
          [] OTHER -> Handled(<<ok_head, BodyBlock("json", response_data)>>, 0, "none")

\* handler.do_OPTIONS of the template and theme adapter
theme_do_OPTIONS(req) ==
    Handled(<< HeaderBlock(200, <<AllowOrigin,
                                 <<"Access-Control-Allow-Methods", "GET, POST, OPTIONS">>,
                                 <<"Access-Control-Allow-Headers", "Content-Type">>>>) >>,
            0, "none")

(***************************************************************************)
(* The project-manager adapter (api/project_manager.py).                   *)
(***************************************************************************)
\* a value as an f-string prints it
Format(v) ==
    CASE v.t = "lit" -> (IF v.s = <<"true">> THEN <<"True">> ELSE <<"False">>)
      [] v.t = "list" -> <<"[...]">>
      [] v.t = "dict" -> <<"{...}">>
      [] OTHER -> v.s

\* bool(v)
JTruthy(v) ==
    CASE v.t = "lit" -> v.s = <<"true">>
      [] v.t = "str" -> v.s # <<>>
      [] v.t = "list" \/ v.t = "dict" -> v.items # <<>>
      [] OTHER -> TRUE

\* the options do_POST takes from the request data, with their defaults
project_options(data, name) ==
    << <<"description",
         DictGet(data, "description",
                 JStr(<<"Advanced Bootstrap project: ">> \o Format(name)))>>,
       <<"author", DictGet(data, "author", JStr(<<>>))>>,
       <<"bootstrap_icons", DictGet(data, "bootstrap_icons", JLit(<<"true">>))>>,
       <<"custom_css", DictGet(data, "custom_css", JLit(<<"true">>))>>,
       <<"custom_js", DictGet(data, "custom_js", JLit(<<"true">>))>>,
       <<"live_reload", DictGet(data, "live_reload", JLit(<<"true">>))>>,
       <<"minify_assets", DictGet(data, "minify_assets", JLit(<<"false">>))>>,
       <<"components", DictGet(data, "components", JList(<<>>))>>,
       <<"dependencies", DictGet(data, "dependencies", JList(<<>>))>> >>

\* ProjectManager.create_project_config
create_project_config(name, options) ==
    << <<"name", name>>,
       <<"version", JStr(<<"1.0.0">>)>>,
       <<"description",
         DictGet(options, "description", JStr(<<"Bootstrap project: ">> \o Format(name)))>>,
       <<"author", DictGet(options, "author", JStr(<<>>))>>,
       <<"bootstrap_version", JStr(<<"5.3.3">>)>>,
       <<"bootstrap_icons", DictGet(options, "bootstrap_icons", JLit(<<"true">>))>>,
       <<"custom_css", DictGet(options, "custom_css", JLit(<<"true">>))>>,
       <<"custom_js", DictGet(options, "custom_js", JLit(<<"true">>))>>,
       <<"live_reload", DictGet(options, "live_reload", JLit(<<"true">>))>>,
       <<"minify_assets", DictGet(options, "minify_assets", JLit(<<"false">>))>>,
       <<"deployment", JDict(<< <<"type", JStr(<<"static">>)>>,
                                <<"build_dir", JStr(<<"dist">>)>> >>)>>,
       <<"components", DictGet(options, "components", JList(<<>>))>>,
       <<"dependencies", DictGet(options, "dependencies", JList(<<>>))>>,
       <<"created", JStr(<<"<now>">>)>> >>

\* ProjectManager.generate_advanced_template
generate_advanced_template(c) ==
    <<"<!DOCTYPE html>", "<meta name=\"description\" content=\"">>
    \o Format(Get(c, "description")) \o <<"\"><meta name=\"author\" content=\"">>
    \o Format(Get(c, "author")) \o <<"\">", "<title>">> \o Format(Get(c, "name"))
    \o <<"</title>", "bootstrap@">> \o Format(Get(c, "bootstrap_version"))
    \o (IF JTruthy(Get(c, "bootstrap_icons")) THEN <<"<link bootstrap-icons.css>">> ELSE <<>>)
    \o (IF JTruthy(Get(c, "custom_css")) THEN <<"<link css/style.css>">> ELSE <<>>)
    \o <<"<body> ... Welcome to ">> \o Format(Get(c, "name")) \o <<" ... ">>
    \o Format(Get(c, "description")) \o <<" ... Version: ">> \o Format(Get(c, "version"))
    \o <<" ... Author: ">>
    \o (IF JTruthy(Get(c, "author")) THEN Format(Get(c, "author")) ELSE <<"Anonymous">>)
    \o <<" ... ">>
    \o (IF JTruthy(Get(c, "custom_js")) THEN <<"<script src=js/script.js>">> ELSE <<>>)
    \o (IF JTruthy(Get(c, "live_reload")) THEN <<"<script>checkReload</script>">> ELSE <<>>)
    \o <<"</body></html>">>

\* ProjectManager.generate_readme: [exc, text]; config['name'].lower() needs a str
project_readme(c) ==
    IF Get(c, "name").t # "str" THEN [exc |-> "AttributeError", text |-> <<>>]
    ELSE [exc |-> "none",
          text |-> <<"# ">> \o Get(c, "name").s \o <<" ... ">> \o Format(Get(c, "description"))
                   \o <<" ... ">> \o DerivedDir(Get(c, "name").s) \o <<"/ ... Author: ">>
                   \o (IF JTruthy(Get(c, "author")) THEN Format(Get(c, "author"))
                       ELSE <<"Anonymous">>)]

\* create_project_structure, but with a result that holds no files
create_project_structure_no_files(name, options) ==
    LET c == create_project_config(name, options)
        readme == project_readme(c)
    IN  IF readme.exc # "none" THEN [exc |-> readme.exc, result |-> <<>>]
        ELSE [exc |-> "none",
              result |-> << <<"status", JStr(<<"success">>)>>,
                            <<"message", JStr(<<"Advanced project \"">> \o name.s
                                               \o <<"\" created successfully">>)>>,
                            <<"config", JDict(c)>> >>]

\* ProjectManager.create_project_structure: [exc, result]
create_project_structure(name, options) ==
    LET c == create_project_config(name, options)
        readme == project_readme(c)
        files ==
            << <<"index.html", JStr(generate_advanced_template(c))>>,
               <<"css/style.css", JStr(<<"/* Advanced Custom CSS ... */">>)>>,
               <<"js/script.js", JStr(<<"// Advanced JavaScript ... ">>)>>,
               <<"project.json", JStr(<<"{name: ">> \o Format(Get(c, "name")) \o <<", ...}">>)>>,
               <<".bootstrap-config.json",
                 JStr(<<"{generator_version, bootstrap_version, created, last_modified}">>)>>,
               <<"README.md", JStr(readme.text)>> >>
    IN  IF readme.exc # "none" THEN [exc |-> readme.exc, result |-> <<>>]
        ELSE [exc |-> "none",
              result |-> << <<"status", JStr(<<"success">>)>>,
                            <<"message", JStr(<<"Advanced project \"">> \o name.s
                                               \o <<"\" created successfully">>)>>,
                            <<"config", JDict(c)>>,
                            <<"files", JDict(files)>> >>]

\* the except clause of do_POST of the project-manager adapter
project_post_error(message) ==
    << HeaderBlock(500, <<<<"Content-Type", "application/json">>, AllowOrigin>>),
       BodyBlock("json", << <<"status", JStr(<<"error">>)>>, <<"message", JStr(message)>>,
                            <<"details", JStr(<<"Failed to create project">>)>> >>) >>

project_get_error_empty(message) ==
    << HeaderBlock(500, <<<<"Content-Type", "application/json">>, AllowOrigin>>),
       BodyBlock("json", <<>>) >>

\* the except clause of do_GET of the project-manager adapter
project_get_error(message) ==
    << HeaderBlock(500, <<<<"Content-Type", "application/json">>, AllowOrigin>>),
       BodyBlock("json", << <<"status", JStr(<<"error">>)>>,
                            <<"message", JStr(message)>> >>) >>

\* the body of a POST as the project-manager adapter reads it: [exc, data];
\* int(self.headers['Content-Length']) needs the header, and a body that is no
\* JSON is taken as {}
project_read_body(req) ==
    CASE req.length = "absent" -> [exc |-> "TypeError", data |-> <<>>]
      [] req.length = "bad" -> [exc |-> "ValueError", data |-> <<>>]
      [] req.length = "ok" /\ req.body \in {"empty", "malformed"} ->
            [exc |-> "none", data |-> <<>>]
      [] req.length = "ok" /\ req.body = "array" ->
            [exc |-> "AttributeError", data |-> <<>>]
      [] OTHER -> [exc |-> "none", data |-> req.data]

\* handler.do_POST of the project-manager adapter
project_do_POST(req) ==
    LET read == project_read_body(req)
        name == DictGet(read.data, "name", JStr(<<"My Advanced Project">>))
        made == create_project_structure(name, project_options(read.data, name))
        ok_head == HeaderBlock(200, <<<<"Content-Type", "application/json">>, AllowOrigin,
                                     <<"Access-Control-Allow-Methods", "POST, GET, OPTIONS">>,
                                     <<"Access-Control-Allow-Headers", "Content-Type">>>>)
    IN  CASE read.exc # "none" ->
                Handled(project_post_error(ErrorText(read.exc)), 0, read.exc)
          [] read.exc = "none" /\ made.exc # "none" ->
                Handled(project_post_error(ErrorText(made.exc)), 0, made.exc)
          [] read.exc = "none" /\ made.exc = "none" /\ req.fault = "body_write_fails" ->
                Handled(<<ok_head>> \o project_post_error(ErrorText("OSError")), 0, "OSError")
          [] OTHER -> Handled(<<ok_head, BodyBlock("json", made.result)>>, 0, "none")

KnownActions == {"info", "health", "templates", "check_reload"}

action_response_reloading(action) ==
    IF action = <<"check_reload">>
    THEN << <<"reload", JLit(<<"true">>)>>, <<"timestamp", JStr(<<"<now>">>)>> >>
    ELSE << <<"error", JStr(<<"Unknown action">>)>> >>

\* the response_data of do_GET for an action
action_response(action) ==
    CASE action = <<"info">> ->
            << <<"name", JStr(<<"Bootstrap Project Manager API">>)>>,
               <<"version", JStr(<<"1.0.0">>)>>,
               <<"description", JStr(<<"Advanced Bootstrap project management and generation">>)>>,
               <<"endpoints", JDict(<<>>)>>, <<"usage", JDict(<<>>)>>,
               <<"examples", JDict(<<>>)>> >>
      [] action = <<"health">> ->
            << <<"status", JStr(<<"healthy">>)>>, <<"timestamp", JStr(<<"<now>">>)>>,
               <<"version", JStr(<<"1.0.0">>)>>, <<"uptime", JStr(<<"N/A (serverless)">>)>> >>
      [] action = <<"templates">> -> << <<"templates", JDict(<<>>)>> >>
      [] action = <<"check_reload">> ->
            << <<"reload", JLit(<<"false">>)>>, <<"timestamp", JStr(<<"<now>">>)>> >>
      [] OTHER ->
            << <<"error", JStr(<<"Unknown action">>)>>,
               <<"available_actions",
                 JList(<<JStr(<<"info">>), JStr(<<"health">>), JStr(<<"templates">>),
                         JStr(<<"check_reload">>)>>)>> >>

project_do_GET_known_only(req) ==
    LET action == QueryGet(req.query, "action", <<"info">>)
        ok_head == HeaderBlock(200, <<<<"Content-Type", "application/json">>, AllowOrigin>>)
    IN  IF req.fault = "body_write_fails" \/ action \notin {<<a>> : a \in KnownActions}
        THEN Handled(project_get_error(ErrorText("ValueError")), 0, "ValueError")
        ELSE Handled(<<ok_head, BodyBlock("json", action_response(action))>>, 0, "none")

\* handler.do_GET of the project-manager adapter
project_do_GET(req) ==
    LET action == QueryGet(req.query, "action", <<"info">>)
        ok_head == HeaderBlock(200, <<<<"Content-Type", "application/json">>, AllowOrigin>>)
    IN  IF req.fault = "body_write_fails"
        THEN Handled(<<ok_head>> \o project_get_error(ErrorText("OSError")), 0, "OSError")
        ELSE Handled(<<ok_head, BodyBlock("json", action_response(action))>>, 0, "none")

\* handler.do_OPTIONS of the project-manager adapter
project_do_OPTIONS(req) ==
    Handled(<< HeaderBlock(200, <<AllowOrigin,
                                 <<"Access-Control-Allow-Methods", "POST, GET, OPTIONS">>,
                                 <<"Access-Control-Allow-Headers", "Content-Type">>>>) >>,
            0, "none")

(***************************************************************************)
(* The requests the adapters are sent.                                     *)
(***************************************************************************)
Request(adapter, method, length, body, data, query, fault) ==
    [adapter |-> adapter, body |-> body, data |-> data, exc |-> "none", fault |-> fault,
     length |-> length, method |-> method, query |-> query]

\* an optional member of a dict: there with one of the values, or not there
Optional(k, values) == {<<>>} \cup {<< <<k, v>> >> : v \in values}

SiteName == <<"M", "y", " ", "S", "i", "t", "e">>

\* the body write of the response may fail (the client is slow or gone)
SocketFaults == {"none", "body_write_fails"}

\* Content-Length and body of a POST that carries no JSON object
BodyForms ==
    {<<"absent", "empty">>, <<"bad", "empty">>, <<"ok", "empty">>, <<"ok", "malformed">>,
     <<"ok", "array">>}

ComponentItems == {<<"navbar">>, <<"cards">>, <<"x", "navbar">>}

ComponentLists ==
    {JList([i \in 1..Len(q) |-> JStr(q[i])]) : q \in SeqsUpTo(ComponentItems, MaxComponents)}

\* components given as a list, as a list with a number in it, as a string, as
\* a number
ComponentValues ==
    ComponentLists
        \cup {JList(<<JNum>>), JList(<<JStr(<<"navbar">>), JNum>>), JStr(<<"x", "navbar">>),
              JNum}

ThemeObjects ==
    {<< <<"components", v>> >> : v \in ComponentValues}
        \cup {n \o t : n \in Optional("name", {JStr(SiteName), JNum}),
                       t \in Optional("theme", {JStr(<<"danger">>), JNum})}

ThemeQueries ==
    {n \o t \o a \o f :
        n \in Optional("name", {SiteName}),
        t \in Optional("theme", {<<"danger">>, <<"bogus">>}),
        a \in Optional("nav", {<<"T", "r", "u", "e">>, <<"f", "a", "l", "s", "e">>}),
        f \in Optional("footer", {<<"f", "a", "l", "s", "e">>})}

ProjectObjects ==
    {n \o o : n \in Optional("name", {JStr(SiteName), JNum}),
              o \in {<<>>, << <<"author", JStr(<<"Ann">>)>> >>,
                     << <<"live_reload", JLit(<<"false">>)>> >>}}

ProjectQueries ==
    {a \o l : a \in Optional("action", {<<"info">>, <<"health">>, <<"templates">>,
                                        <<"check_reload">>, <<"bogus">>}),
              l \in Optional("last", {<<"0">>})}

\* the socket fault is tried on one request of each kind
PostRequests(adapter, objects) ==
    {Request(adapter, "POST", f[1], f[2], <<>>, <<>>, "none") : f \in BodyForms}
        \cup {Request(adapter, "POST", "ok", "object", d, <<>>, "none") : d \in objects}
        \cup {Request(adapter, "POST", "ok", "object", <<>>, <<>>, x) : x \in SocketFaults}

GetRequests(adapter, queries) ==
    {Request(adapter, "GET", "absent", "empty", <<>>, q, "none") : q \in queries}
        \cup {Request(adapter, "GET", "absent", "empty", <<>>, <<>>, x) : x \in SocketFaults}

OptionsRequests(adapter) ==
    {Request(adapter, "OPTIONS", "absent", "empty", <<>>, <<>>, "none")}

ThemeGetRequests == GetRequests("theme", ThemeQueries)
ThemePostRequests == PostRequests("theme", ThemeObjects)
ProjectPostRequests == PostRequests("project", ProjectObjects)
ProjectGetRequests == GetRequests("project", ProjectQueries)

(***************************************************************************)
(* The adapters as a state machine: every action answers one request.  A   *)
(* serverless function keeps nothing in memory between requests; what      *)
(* stays is what it left on disk.                                          *)
(***************************************************************************)
HttpInit ==
    /\ CoreIdle
    /\ HttpIdle
    /\ CliIdle
    /\ ReloadIdle

ThemeGet ==
    \E req \in ThemeGetRequests :
        LET h == theme_do_GET(req)
        IN  /\ tmp_files + h.tmp <= MaxTempFiles
            /\ http_req' = [req EXCEPT !.exc = h.exc]
            /\ wire' = h.wire
            /\ tmp_files' = tmp_files + h.tmp
            /\ UNCHANGED <<coreVars, cliVars, reloadVars>>

ThemePost ==
    \E req \in ThemePostRequests :
        LET h == theme_do_POST(req)
        IN  /\ tmp_files + h.tmp <= MaxTempFiles
            /\ http_req' = [req EXCEPT !.exc = h.exc]
            /\ wire' = h.wire
            /\ tmp_files' = tmp_files + h.tmp
            /\ UNCHANGED <<coreVars, cliVars, reloadVars>>

ThemeOptions ==
    \E req \in OptionsRequests("theme") :
        LET h == theme_do_OPTIONS(req)
        IN  /\ tmp_files + h.tmp <= MaxTempFiles
            /\ http_req' = [req EXCEPT !.exc = h.exc]
            /\ wire' = h.wire
            /\ tmp_files' = tmp_files + h.tmp
            /\ UNCHANGED <<coreVars, cliVars, reloadVars>>

ProjectPost ==
    \E req \in ProjectPostRequests :
        LET h == project_do_POST(req)
        IN  /\ tmp_files + h.tmp <= MaxTempFiles
            /\ http_req' = [req EXCEPT !.exc = h.exc]
            /\ wire' = h.wire
            /\ tmp_files' = tmp_files + h.tmp
            /\ UNCHANGED <<coreVars, cliVars, reloadVars>>

ProjectGet ==
    \E req \in ProjectGetRequests :
        LET h == project_do_GET(req)
        IN  /\ tmp_files + h.tmp <= MaxTempFiles
            /\ http_req' = [req EXCEPT !.exc = h.exc]
            /\ wire' = h.wire
            /\ tmp_files' = tmp_files + h.tmp
            /\ UNCHANGED <<coreVars, cliVars, reloadVars>>

ProjectOptions ==
    \E req \in OptionsRequests("project") :
        LET h == project_do_OPTIONS(req)
        IN  /\ tmp_files + h.tmp <= MaxTempFiles
            /\ http_req' = [req EXCEPT !.exc = h.exc]
            /\ wire' = h.wire
            /\ tmp_files' = tmp_files + h.tmp
            /\ UNCHANGED <<coreVars, cliVars, reloadVars>>

HttpNext ==
    \/ ThemeGet \/ ThemePost \/ ThemeOptions
    \/ ProjectPost \/ ProjectGet \/ ProjectOptions

SpecHttp == HttpInit /\ [][HttpNext]_vars

(***************************************************************************)
(* Claims about the HTTP adapters.                                         *)
(***************************************************************************)
\* the request answered last is a theme POST that was sent an archive
ZipSent ==
    /\ http_req.adapter = "theme"
    /\ http_req.method = "POST"
    /\ \E i \in 1..Len(wire) : wire[i].part = "body" /\ wire[i].kind = "zip"

\* the archive that was sent: its entries, in the order they were written
SentEntries == (CHOOSE b \in Range(wire) : b.part = "body" /\ b.kind = "zip").members

\* the components the request asked for
AskedComponents == DictGet(http_req.data, "components", DefaultComponents)

\* C11: for every components list, the archive of generate_theme_package holds
\* exactly index.html, css/custom.css, js/custom.js and README.md, and
\* components/<c>.html for each c of navbar, cards, buttons that is an item of
\* the list; every entry once, and no other entry.
C11_PackageEntries ==
    (ZipSent /\ AskedComponents.t = "list") =>
        LET names == {SentEntries[i][1] : i \in 1..Len(SentEntries)}
            items == Range(AskedComponents.items)
        IN  /\ names = {<<"index.html">>, <<"css/custom.css">>, <<"js/custom.js">>,
                        <<"README.md">>}
                       \cup {<<"components/", c, ".html">> :
                                c \in {d \in {"navbar", "cards", "buttons"} :
                                          JStr(<<d>>) \in items}}
            /\ Cardinality(names) = Len(SentEntries)

\* an archive was sent for a list that names cards, and an item that only
\* contains the word navbar
C11_Witness ==
    /\ ZipSent
    /\ AskedComponents = JList(<<JStr(<<"cards">>), JStr(<<"x", "navbar">>)>>)
    /\ Len(SentEntries) = 5

\* the handler logic of the request answered last raised an exception
Raised == http_req.adapter # "none" /\ http_req.exc # "none"

\* the header block and the body sent last
LastHead == wire[Len(wire) - 1]
LastBody == wire[Len(wire)]

\* the 500 response that ends what was sent: its status block and its JSON body
ErrorSent ==
    /\ Len(wire) >= 2
    /\ LastHead.part = "head" /\ LastHead.status = 500
    /\ LastBody.part = "body" /\ LastBody.kind = "json"

C16_CorsHeaders ==
    /\ \A i \in 1..Len(wire) :
          wire[i].part = "head" => AllowOrigin \in Range(wire[i].headers)
    /\ (http_req.adapter # "none" /\ http_req.method = "OPTIONS") =>
          /\ Len(wire) = 1
          /\ wire[1].part = "head" /\ wire[1].status = 200
          /\ {"Access-Control-Allow-Methods", "Access-Control-Allow-Headers"}
                \subseteq Keys(wire[1].headers)

\* an error response of the theme adapter was sent
C16_Witness ==
    /\ Raised
    /\ http_req.adapter = "theme"
    /\ ErrorSent

\* C17: the adapters retain no state across requests: no file created while
\* handling a request, the temporary file of the archive included, still
\* exists after the response is sent.
C17_NoFileLeftBehind == tmp_files = 0

\* the project-files POST succeeded
ProjectCreated ==
    /\ http_req.adapter = "project" /\ http_req.method = "POST"
    /\ http_req.exc = "none"

\* C19 as stated: a successful project-files POST returns 200 with a JSON
\* object whose fields are status, message, project_name, template_type and
\* files.
C19_FieldsAsStated ==
    ProjectCreated =>
        /\ Len(wire) = 2 /\ wire[1].status = 200 /\ wire[2].kind = "json"
        /\ Keys(wire[2].members)
              = {"status", "message", "project_name", "template_type", "files"}

\* C19: a successful project-files POST returns 200 with a JSON object whose
\* fields are status ("success"), message, config (the project configuration)
\* and files, where files maps each of the six generated relative paths to its
\* text content.
C19_ResponseFields ==
    ProjectCreated =>
        /\ Len(wire) = 2
        /\ wire[1].part = "head" /\ wire[1].status = 200
        /\ wire[2].part = "body" /\ wire[2].kind = "json"
        /\ [i \in 1..Len(wire[2].members) |-> wire[2].members[i][1]]
              = <<"status", "message", "config", "files">>
        /\ Get(wire[2].members, "status") = JStr(<<"success">>)
        /\ Get(wire[2].members, "config").t = "dict"
        /\ LET files == Get(wire[2].members, "files")
           IN  /\ files.t = "dict"
               /\ Keys(files.items)
                     = {"index.html", "css/style.css", "js/script.js", "project.json",
                        ".bootstrap-config.json", "README.md"}
               /\ \A i \in 1..Len(files.items) : files.items[i][2].t = "str"

\* a project was created for a request that names it and its author
C19_Witness ==
    /\ ProjectCreated
    /\ {"name", "author"} \subseteq Keys(http_req.data)
    /\ Len(wire) = 2

\* the last request was a GET to the project-manager adapter whose response
\* the socket took
ProjectGetAnswered ==
    /\ http_req.adapter = "project" /\ http_req.method = "GET"
    /\ http_req.fault = "none"

\* C25: a project-manager GET without an action parameter is answered as
\* action=info; an action outside info, health, templates, check_reload is
\* answered with status 200 and a body holding error 'Unknown action' and
\* the list of those four actions; whatever the action value, the response
\* is one 200 header block and one body, never a 500.
C25_GetDispatch ==
    ProjectGetAnswered
    => /\ Len(wire) = 2
       /\ wire[1].part = "head" /\ wire[1].status = 200
       /\ wire[2].part = "body"
       /\ \A i \in 1..Len(wire) : wire[i].status # 500
       /\ "action" \notin Keys(http_req.query)
              => /\ Get(wire[2].members, "name") = JStr(<<"Bootstrap Project Manager API">>)
                 /\ Keys(wire[2].members) =
                        {"name", "version", "description", "endpoints", "usage", "examples"}
       /\ ("action" \in Keys(http_req.query)
           /\ Get(http_req.query, "action") \notin
                  {<<"info">>, <<"health">>, <<"templates">>, <<"check_reload">>})
              => wire[2].members =
                    << <<"error", JStr(<<"Unknown action">>)>>,
                       <<"available_actions",
                         JList(<<JStr(<<"info">>), JStr(<<"health">>), JStr(<<"templates">>),
                                 JStr(<<"check_reload">>)>>)>> >>
       /\ ("action" \in Keys(http_req.query)
           /\ Get(http_req.query, "action") = <<"info">>)
              => Get(wire[2].members, "name") = JStr(<<"Bootstrap Project Manager API">>)

\* an action that is none of the four was answered with 200 and the list
C25_Witness ==
    /\ ProjectGetAnswered
    /\ "action" \in Keys(http_req.query)
    /\ Get(http_req.query, "action") = <<"bogus">>
    /\ wire[1].status = 200
    /\ "available_actions" \in Keys(wire[2].members)

\* the header blocks sent for the last request, by position
Heads == {i \in 1..Len(wire) : wire[i].part = "head"}

\* C27: each request gets exactly one response: for every adapter and a
\* failure at any step of the handler, exactly one status line and header
\* block is emitted, and the 500 error response is never started after a 200
\* status has been sent for the same request.
C27_OneResponsePerRequest ==
    http_req.adapter # "none"
    => /\ Cardinality(Heads) = 1
       /\ ~\E i, j \in Heads : i < j /\ wire[i].status = 200 /\ wire[j].status = 500

(***************************************************************************)
(* LiveReloadHandler: the events of one handler are dispatched one after   *)
(* the other by the thread of its observer.                                *)
(***************************************************************************)
relevant_extensions == {".html", ".css", ".js", ".scss", ".sass"}

\* str.endswith for a path whose last piece is its extension
EndsWith(path, ext) == path # <<>> /\ path[Len(path)] = ext

DebouncedShort(seen, path, current_time) ==
    /\ path \in Keys(seen)
    /\ current_time - Get(seen, path) < DebounceTicks - 1

\* the event comes too soon after the last delivered event of its path
Debounced(seen, path, current_time) ==
    /\ path \in Keys(seen)
    /\ current_time - Get(seen, path) < DebounceTicks

on_modified_refreshing(seen, event, current_time) ==
    IF event.is_directory
       \/ ~\E ext \in relevant_extensions : EndsWith(event.src_path, ext)
    THEN [last_modified |-> seen, called |-> <<>>]
    ELSE [last_modified |-> SetItem(seen, event.src_path, current_time),
          called |-> IF Debounced(seen, event.src_path, current_time)
                     THEN <<>> ELSE << <<event.src_path, current_time>> >>]

\* LiveReloadHandler.on_modified with time.time() reading current_time:
\* [last_modified, called], called the arguments of the callback calls made
on_modified(seen, event, current_time) ==
    CASE event.is_directory -> [last_modified |-> seen, called |-> <<>>]
      [] ~event.is_directory
         /\ ~\E ext \in relevant_extensions : EndsWith(event.src_path, ext) ->
            [last_modified |-> seen, called |-> <<>>]
      [] ~event.is_directory
         /\ (\E ext \in relevant_extensions : EndsWith(event.src_path, ext))
         /\ Debounced(seen, event.src_path, current_time) ->
            [last_modified |-> seen, called |-> <<>>]
      [] OTHER ->
            [last_modified |-> SetItem(seen, event.src_path, current_time),
             called |-> << <<event.src_path, current_time>> >>]

WatchedPaths == {<<"index", ".html">>, <<"css/style", ".css">>, <<"notes", ".txt">>}

\* changes of files, and of a directory whose name ends like a stylesheet
ModifiedEvents ==
    {[is_directory |-> FALSE, src_path |-> p] : p \in WatchedPaths}
        \cup {[is_directory |-> TRUE, src_path |-> <<"old", ".css">>]}

\* the state after LiveReloadHandler.__init__
ReloadInit ==
    /\ CoreIdle /\ HttpIdle /\ CliIdle
    /\ last_modified = <<>>
    /\ notified = <<>>

\* the observer dispatches an event; time.time() is the wall clock, which may
\* also be set back between two events
OnModified ==
    /\ Len(notified) < MaxNotified
    /\ \E event \in ModifiedEvents, current_time \in 0..MaxClock :
          LET r == on_modified(last_modified, event, current_time)
          IN  /\ last_modified' = r.last_modified
              /\ notified' = notified \o r.called
              /\ UNCHANGED <<coreVars, httpVars, cliVars>>

ReloadNext == OnModified

SpecReload == ReloadInit /\ [][ReloadNext]_vars

\* C13: over any sequence of on_modified events handled by one
\* LiveReloadHandler, the callback is never invoked for two events of the same
\* path whose times are less than 0.5 seconds apart.
C13_DebounceSafety ==
    \A i, j \in 1..Len(notified) :
        (i < j /\ notified[i][1] = notified[j][1]) =>
            /\ notified[j][2] - notified[i][2] >= DebounceTicks
            /\ notified[i][2] - notified[j][2] <= 0 - DebounceTicks

\* the callback was invoked twice for one path, exactly 0.5 s apart, and for
\* another path in between
C13_Witness ==
    /\ Len(notified) = 3
    /\ notified[1][1] = notified[3][1]
    /\ notified[2][1] # notified[1][1]
    /\ notified[3][2] - notified[1][2] = DebounceTicks

\* the callback calls made so far for a path, oldest first
DeliveredTimes(path) ==
    LET idx == {i \in 1..Len(notified) : notified[i][1] = path}
        F[i \in 0..Len(notified)] ==
            IF i = 0 THEN <<>>
            ELSE IF i \in idx THEN Append(F[i - 1], notified[i][2]) ELSE F[i - 1]
    IN  F[Len(notified)]

\* the delivery rule as a statement about the history of callback calls
ShouldDeliver(event, current_time) ==
    /\ ~event.is_directory
    /\ \E ext \in relevant_extensions : EndsWith(event.src_path, ext)
    /\ LET times == DeliveredTimes(event.src_path)
       IN  times = <<>> \/ current_time - times[Len(times)] >= DebounceTicks

\* C24: in every state of a handler, the next on_modified event is passed to
\* the callback if and only if it is no directory event, its path ends with
\* one of .html, .css, .js, .scss, .sass, and the last event of the same path
\* that was passed to the callback is at least 0.5 s older or there is none.
\* An event that is not passed on leaves the recorded times as they are; an
\* event that is passed on records its time for its own path only.
C24_DeliveryRule ==
    \A event \in ModifiedEvents, current_time \in 0..MaxClock :
        LET r == on_modified(last_modified, event, current_time)
        IN  IF ShouldDeliver(event, current_time)
            THEN /\ r.called = << <<event.src_path, current_time>> >>
                 /\ DictEq(r.last_modified,
                           SetItem(last_modified, event.src_path, current_time))
            ELSE r.called = <<>> /\ r.last_modified = last_modified

\* after the callback was called for two paths, there is a time at which an
\* event of the first path is held back while one of the second is passed on
C24_Witness ==
    /\ Len(notified) >= 2
    /\ notified[1][1] # notified[2][1]
    /\ \E current_time \in 0..MaxClock :
          /\ ~ShouldDeliver([is_directory |-> FALSE, src_path |-> notified[1][1]],
                            current_time)
          /\ ShouldDeliver([is_directory |-> FALSE, src_path |-> notified[2][1]],
                           current_time)

(***************************************************************************)
(* Live reload end to end: the watcher of the development server hears of  *)
(* file changes while the page it serves polls the adapter with            *)
(* ?action=check_reload.                                                   *)
(***************************************************************************)
\* the polls of the page: last is Date.now() of the page, or left out
CheckReloadRequests ==
    {Request("project", "GET", "absent", "empty", <<>>,
             << <<"action", <<"check_reload">>>> >> \o l, x) :
        l \in Optional("last", {<<"0">>, <<"9">>}), x \in SocketFaults}

LiveInit ==
    /\ CoreIdle /\ HttpIdle /\ CliIdle
    /\ last_modified = <<>>
    /\ notified = <<>>

\* GET ?action=check_reload&last=...
CheckReload ==
    \E req \in CheckReloadRequests :
        LET h == project_do_GET(req)
        IN  /\ http_req' = [req EXCEPT !.exc = h.exc]
            /\ wire' = h.wire
            /\ UNCHANGED <<coreVars, tmp_files, cliVars, reloadVars>>

LiveNext == OnModified \/ CheckReload

SpecLive == LiveInit /\ [][LiveNext]_vars

\* the answer to a poll says reload
SaysReload(block) ==
    /\ block.part = "body"
    /\ "reload" \in Keys(block.members)
    /\ Get(block.members, "reload") # JLit(<<"false">>)

\* C23: no sequence of file-change events produces a reload notification:
\* the callback of the watcher only records the change, nothing that is sent
\* to a browser says reload, and every check_reload response that is written
\* has reload = false, whatever changes came before it and whatever last
\* value the page sends.
C23_NoReloadNotification ==
    /\ \A i \in 1..Len(wire) : ~SaysReload(wire[i])
    /\ (/\ http_req.adapter = "project" /\ http_req.method = "GET"
        /\ QueryGet(http_req.query, "action", <<"info">>) = <<"check_reload">>
        /\ http_req.exc = "none")
       => /\ Len(wire) = 2
          /\ wire[1].part = "head" /\ wire[1].status = 200
          /\ wire[2].part = "body" /\ "reload" \in Keys(wire[2].members)

\* the callback was called for three changes, and the poll that followed,
\* with a last value older than them, was answered reload = false
C23_Witness ==
    /\ Len(notified) = MaxNotified
    /\ http_req.adapter = "project" /\ http_req.exc = "none"
    /\ "last" \in Keys(http_req.query)
    /\ Get(wire[2].members, "reload") = JLit(<<"false">>)

(***************************************************************************)
(* The command-line tools: one run of main per behaviour.                  *)
(***************************************************************************)
\* what a run has done when it ends: watcher says that start_file_watcher
\* has started an observer, watcher_stopped that the observer was stopped
\* again.  start_dev_server drops the observer start_file_watcher returns,
\* and no statement of either tool calls observer.stop().
Ran(printed, raised, result, watcher) ==
    [done |-> TRUE, printed |-> printed, raised |-> raised, result |-> result,
     watcher |-> watcher, watcher_stopped |-> FALSE]

\* the pieces of markup validate_html looks for, in the order of a page
HtmlPieces ==
    <<"<!DOCTYPE html>", "<!doctype html>", "<html", "<head>", "<title>", "viewport",
      "<body>", "Bootstrap", "<img", "alt=", "aria-", "button", "input">>

Issue(found, message) == IF found THEN <<>> ELSE <<message>>

HasDoctypeAnyCase(content) == Contains(Lower(content), <<"<!doctype html>">>)

\* '<!DOCTYPE html>' in content
HasDoctype(content) == Contains(content, <<"<!DOCTYPE html>">>)

\* BootstrapGenerator.validate_html: [raised, valid, issues]; file is what is
\* at file_path: its kind, and its content when it can be read
validate_html(file) ==
    CASE file.kind = "missing" ->
            [raised |-> "none", valid |-> FALSE, issues |-> <<"File not found: <file_path>">>]
      [] file.kind \in {"denied", "directory", "binary"} ->
            [raised |-> "none", valid |-> FALSE, issues |-> <<"Error reading file: <e>">>]
      [] OTHER ->
            LET content == file.content
                has(piece) == Contains(content, <<piece>>)
                issues ==
                    Issue(HasDoctype(content), "Missing DOCTYPE declaration")
                    \o Issue(has("<html"), "Missing <html> tag")
                    \o Issue(has("<head>"), "Missing <head> section")
                    \o Issue(has("<title>"), "Missing <title> tag")
                    \o Issue(has("viewport"),
                             "Missing viewport meta tag (important for responsive design)")
                    \o Issue(has("<body>"), "Missing <body> tag")
                    \o Issue(Contains(Lower(content), <<"bootstrap">>),
                             "Bootstrap CSS/JS not detected")
                    \o Issue(~(~has("alt=") /\ has("<img")),
                             "Images found without alt attributes")
                    \o Issue(~(~has("aria-") /\ (has("button") \/ has("input"))),
                             "Consider adding ARIA attributes for better accessibility")
            IN  [raised |-> "none", valid |-> Len(issues) = 0, issues |-> issues]

\* the three re.sub calls and strip() on a text whose pieces are comments,
\* the blanks around braces and the rest: comments and those blanks go
Minified(css_content) ==
    SelectSeq(css_content, LAMBDA piece : piece \notin {"/* note */", " "})

\* css_file.replace('.css', '.min.css'): every '.css' of the path is replaced,
\* a path without one stays as it is
minified_file_of(css_file) == Replace(css_file, ".css", ".min.css")

\* BootstrapGenerator.minify_css(css_file) of a file [kind, content] at the
\* path css_file: [raised, error, minified_file, wrote, written, input_after];
\* wrote says that minified_file was opened for writing, written is its text
\* then, input_after the text of the input file after the call.  A path
\* with '.css' in a directory name is rewritten there too, to a directory that
\* is not there.  The savings are computed after the write: an empty input
\* gives ZeroDivisionError, which is caught like every other exception.
minify_css(css_file, file, write_fault) ==
    LET minified_file == minified_file_of(css_file)
        failed == [raised |-> "none", error |-> TRUE, minified_file |-> minified_file,
                   wrote |-> FALSE, written |-> <<>>, input_after |-> file.content]
        in_missing_dir == \E i \in 1..Len(css_file) - 1 : css_file[i] = ".css"
        written == Minified(file.content)
        done == [raised |-> "none", error |-> file.content = <<>>,
                 minified_file |-> minified_file, wrote |-> TRUE, written |-> written,
                 input_after |-> IF minified_file = css_file THEN written
                                 ELSE file.content]
    IN  CASE file.kind # "readable" -> failed
          [] file.kind = "readable" /\ (write_fault # "none" \/ in_missing_dir) -> failed
          [] OTHER -> done

\* the try block both tools serve with: os.chdir, TCPServer, serve_forever
\* until Ctrl+C; what it prints
serve(dir_kind, port_free) ==
    CASE dir_kind # "dir" -> <<"Error starting server: <e>">>
      [] dir_kind = "dir" /\ ~port_free -> <<"Error starting server: <e>">>
      [] OTHER -> <<"Server stopped">>

\* BootstrapGenerator.serve_project: what it prints; the banner comes after
\* os.chdir
serve_project(dir_kind, port_free) ==
    IF dir_kind # "dir" THEN serve(dir_kind, port_free)
    ELSE <<"Starting server at http://localhost:<port>">> \o serve(dir_kind, port_free)

\* main of bootstrap_generator.py
gen_main(c) ==
    CASE c.command = "none" -> Ran(<<"usage">>, "none", <<>>, FALSE)
      [] c.command # "none" /\ c.workdir = "readonly" -> Ran(<<>>, "OSError", <<>>, FALSE)
      [] c.command = "create" /\ c.workdir # "readonly" ->
            LET r == gen_create_project(c.tree, c.name, c.type, c.plan[1], c.plan[2])
            IN  IF r.exc # "none"
                THEN Ran(<<"Creating Bootstrap project: <name>">>, r.exc, <<>>, FALSE)
                ELSE Ran(<<"Creating Bootstrap project: <name>",
                           "Project created successfully!">>, "none", <<>>, FALSE)
      [] c.command = "validate" /\ c.workdir # "readonly" ->
            LET result == validate_html(c.file)
            IN  Ran(<<"Validating HTML file: <file>">>
                        \o (IF result.valid THEN <<"HTML file is valid!">>
                            ELSE <<"HTML validation issues found:">> \o result.issues),
                    result.raised, result, FALSE)
      [] c.command = "serve" /\ c.workdir # "readonly" ->
            Ran(serve_project(c.dir_kind, c.port_free), "none", <<>>, FALSE)
      [] c.command = "minify" /\ c.workdir # "readonly" ->
            LET result == minify_css(c.path, c.file, c.write_fault)
            IN  Ran(<<"Minifying CSS file: <file>">>
                        \o (IF result.error THEN <<"Error: <e>">>
                            ELSE <<"CSS minified successfully!">>),
                    result.raised, result, FALSE)

start_dev_server_strict(c) ==
    IF c.dir_kind = "absent"
    THEN Ran(<<"Error: Project directory '<project_dir>' not found">>, "none", <<>>, FALSE)
    ELSE LET loaded == load_config(c.doc, <<"my-site">>, c.io)
             warning == IF loaded.warned THEN <<"Warning: Could not load config file: <e>">>
                        ELSE <<>>
             watch == /\ loaded.value.type = "dict"
                      /\ Get(loaded.value.entries, "live_reload") = PyBool(TRUE)
         IN  IF loaded.value.type # "dict"
             THEN Ran(warning, "TypeError", <<>>, FALSE)
             ELSE Ran(warning \o <<"Starting development server for '<name>'">>
                          \o serve(c.dir_kind, c.port_free),
                      "none", <<>>, watch)

\* AdvancedProjectManager.start_dev_server; c says whether project_dir is
\* there, what its config file holds and whether the port is free
start_dev_server(c) ==
    IF c.dir_kind = "absent"
    THEN Ran(<<"Error: Project directory '<project_dir>' not found">>, "none", <<>>, FALSE)
    ELSE LET loaded == load_config(c.doc, <<"my-site">>, c.io)
             warning == IF loaded.warned THEN <<"Warning: Could not load config file: <e>">>
                        ELSE <<>>
             \* if config.config['live_reload']: self.start_file_watcher(project_dir)
             watch == /\ loaded.value.type = "dict"
                      /\ Truthy(Get(loaded.value.entries, "live_reload"))
         IN  IF loaded.value.type # "dict"
             \* config.config['name'] of a list or a str
             THEN Ran(warning, "TypeError", <<>>, FALSE)
             ELSE Ran(warning \o <<"Starting development server for '<name>'">>
                          \o serve(c.dir_kind, c.port_free),
                      "none", <<>>, watch)

\* the options main builds for create: author and description always among them
MainOptions(c) ==
    << <<"bootstrap_icons", PyBool(~c.no_icons)>>,
       <<"author", PyStr(c.author)>>,
       <<"description", PyStr(IF c.description = <<>>
                              THEN <<"Bootstrap project: ">> \o c.name
                              ELSE c.description)>> >>

\* main of project_manager.py
adv_main(c) ==
    CASE c.command = "none" -> Ran(<<"usage">>, "none", <<>>, FALSE)
      [] c.command # "none" /\ c.workdir = "readonly" -> Ran(<<>>, "OSError", <<>>, FALSE)
      [] c.command = "create" /\ c.workdir # "readonly" ->
            LET r == adv_create_project(c.tree, c.name, c.template, MainOptions(c),
                                        c.plan[1], c.plan[2])
            IN  CASE r.outcome = "False" ->
                        Ran(<<"Error: Project directory '<project_dir>' already exists">>,
                            "none", <<>>, FALSE)
                  [] r.outcome = "True" ->
                        Ran(<<"Creating project: <name>",
                              "Project '<name>' created successfully!">>, "none", <<>>, FALSE)
                  [] OTHER ->
                        Ran(<<"Creating project: <name>">>,
                            IF c.plan[2] # "none" /\ c.plan[1] <= Len(AdvDirSteps)
                            THEN "OSError" ELSE "TypeError",
                            <<>>, FALSE)
      [] c.command = "dev" /\ c.workdir # "readonly" -> start_dev_server(c)
      [] c.command = "build" /\ c.workdir # "readonly" ->
            Ran(<<"Building project: <project>">>, "none", <<>>, FALSE)
      [] c.command = "serve" /\ c.workdir # "readonly" ->
            Ran(<<"Serving project: <project>">>, "none", <<>>, FALSE)

(***************************************************************************)
(* The runs of the tools: the command line, and what the run finds on the  *)
(* machine.                                                                *)
(***************************************************************************)
\* a run with nothing given: every run is this record with some fields set
NoArgs ==
    [tool |-> "none", command |-> "none", workdir |-> "writable", name |-> <<>>,
     type |-> "basic", template |-> "basic", tree |-> <<>>, plan |-> <<0, "none">>,
     file |-> [kind |-> "missing", content |-> <<>>], write_fault |-> "none",
     path |-> <<>>, dir_kind |-> "dir", port_free |-> TRUE, doc |-> NoFile, io |-> "ok",
     author |-> <<>>, description |-> <<>>, no_icons |-> FALSE]

Run(tool, command, given) == [tool |-> tool, command |-> command] @@ given @@ NoArgs

\* a run in a directory where the tool cannot make its own directories
ReadonlyRun(tool, command) == Run(tool, command, [workdir |-> "readonly"])

UnreadableFiles ==
    {[kind |-> k, content |-> <<>>] : k \in {"missing", "denied", "directory", "binary"}}

\* the pages that hold any of the pieces
HtmlFiles ==
    UnreadableFiles
        \cup {[kind |-> "readable",
               content |-> SelectSeq(HtmlPieces, LAMBDA piece : piece \in held)] :
                 held \in SUBSET Range(HtmlPieces)}

CssFiles ==
    UnreadableFiles
        \cup {[kind |-> "readable", content |-> t] :
                 t \in {<<>>, <<"/* note */", "a", " ", "{", "color:red", "}">>}}

\* the paths minify is given: a stylesheet, files named otherwise, and a
\* stylesheet in a directory with .css in its name
CssPaths ==
    { <<"style", ".css">>, <<"notes", ".txt">>, <<"STYLE", ".CSS">>, <<"theme", ".scss">>,
      <<"site", ".css", ".d/style", ".css">> }

DirKinds == {"absent", "dir", "file"}

GenCreateRuns ==
    {Run("generator", "create", [tree |-> t, name |-> n, type |-> ty, plan |-> pl]) :
        t \in TreesOver(GenDirs), n \in GenNames, ty \in {"basic", "component-library"},
        pl \in FaultPlans(GenSteps(<<>>, "basic"))}
        \cup {ReadonlyRun("generator", "create")}

GenValidateRuns ==
    {Run("generator", "validate", [file |-> f]) : f \in HtmlFiles}
        \cup {ReadonlyRun("generator", "validate")}

GenServeRuns ==
    {Run("generator", "serve", [dir_kind |-> d, port_free |-> pf]) :
        d \in DirKinds, pf \in BOOLEAN}
        \cup {ReadonlyRun("generator", "serve")}

GenMinifyRuns ==
    {Run("generator", "minify", [path |-> p, file |-> f, write_fault |-> w]) :
        p \in CssPaths, f \in CssFiles, w \in {"none", "open_fails"}}
        \cup {ReadonlyRun("generator", "minify")}

AdvCreateRuns ==
    {Run("manager", "create",
         [tree |-> t, name |-> n, template |-> tp, author |-> a, description |-> d,
          no_icons |-> ni, plan |-> pl]) :
        t \in TreesOver(AdvDirs), n \in ProjNames, tp \in AdvTemplates,
        a \in {<<>>, <<"Ann">>}, d \in {<<>>, <<"A site">>}, ni \in BOOLEAN,
        pl \in {q \in FaultPlans(AdvSteps) : q[1] <= Len(AdvDirSteps) + 1}}
        \cup {ReadonlyRun("manager", "create")}

AdvDevRuns ==
    {Run("manager", "dev", [dir_kind |-> "dir", doc |-> f, io |-> io, port_free |-> pf]) :
        f \in InitialFiles, io \in LoadIO, pf \in BOOLEAN}
        \cup {Run("manager", "dev", [dir_kind |-> "absent", port_free |-> pf]) :
                 pf \in BOOLEAN}
        \cup {ReadonlyRun("manager", "dev")}

AdvOtherRuns ==
    {Run("manager", cmd, [dir_kind |-> d]) : cmd \in {"build", "serve"}, d \in DirKinds}
        \cup {ReadonlyRun("manager", cmd) : cmd \in {"build", "serve"}}

\* the state before a tool is run
CliInit ==
    /\ CoreIdle /\ HttpIdle /\ ReloadIdle
    /\ CliIdle

\* either tool run without a command
RunWithoutCommand ==
    /\ ~cli_out.done
    /\ \E tool \in {"generator", "manager"}, w \in {"writable", "readonly"} :
          LET c == Run(tool, "none", [workdir |-> w])
          IN  /\ cli_call' = c
              /\ cli_out' = IF tool = "generator" THEN gen_main(c) ELSE adv_main(c)
              /\ UNCHANGED <<coreVars, httpVars, reloadVars>>

\* bootstrap_generator.py create --name <name> --type <type>
RunGenCreate ==
    /\ ~cli_out.done
    /\ \E c \in GenCreateRuns :
          /\ cli_call' = c
          /\ cli_out' = gen_main(c)
          /\ UNCHANGED <<coreVars, httpVars, reloadVars>>

\* bootstrap_generator.py validate <file>
RunGenValidate ==
    /\ ~cli_out.done
    /\ \E c \in GenValidateRuns :
          /\ cli_call' = c
          /\ cli_out' = gen_main(c)
          /\ UNCHANGED <<coreVars, httpVars, reloadVars>>

\* bootstrap_generator.py serve --port <port> --directory <directory>
RunGenServe ==
    /\ ~cli_out.done
    /\ \E c \in GenServeRuns :
          /\ cli_call' = c
          /\ cli_out' = gen_main(c)
          /\ UNCHANGED <<coreVars, httpVars, reloadVars>>

\* bootstrap_generator.py minify <file>
RunGenMinify ==
    /\ ~cli_out.done
    /\ \E c \in GenMinifyRuns :
          /\ cli_call' = c
          /\ cli_out' = gen_main(c)
          /\ UNCHANGED <<coreVars, httpVars, reloadVars>>

\* project_manager.py create <name> [--template] [--author] [--description]
RunAdvCreate ==
    /\ ~cli_out.done
    /\ \E c \in AdvCreateRuns :
          /\ cli_call' = c
          /\ cli_out' = adv_main(c)
          /\ UNCHANGED <<coreVars, httpVars, reloadVars>>

\* project_manager.py dev <project> [--port]
RunAdvDev ==
    /\ ~cli_out.done
    /\ \E c \in AdvDevRuns :
          /\ cli_call' = c
          /\ cli_out' = adv_main(c)
          /\ UNCHANGED <<coreVars, httpVars, reloadVars>>

\* project_manager.py build <project>, project_manager.py serve <project>
RunAdvOther ==
    /\ ~cli_out.done
    /\ \E c \in AdvOtherRuns :
          /\ cli_call' = c
          /\ cli_out' = adv_main(c)
          /\ UNCHANGED <<coreVars, httpVars, reloadVars>>

CliNext ==
    \/ RunWithoutCommand
    \/ RunGenCreate \/ RunGenValidate \/ RunGenServe \/ RunGenMinify
    \/ RunAdvCreate \/ RunAdvDev \/ RunAdvOther

SpecCli == CliInit /\ [][CliNext]_vars

(***************************************************************************)
(* Claims about the command-line tools.                                    *)
(***************************************************************************)
\* the run called validate_html
Validated ==
    /\ cli_out.done
    /\ cli_call.tool = "generator" /\ cli_call.command = "validate"
    /\ cli_call.workdir = "writable"

\* C12: validate_html never raises for any path (missing, unreadable or
\* readable file): it returns a result whose 'valid' is true exactly when
\* 'issues' is empty, and for a readable file 'issues' contains the DOCTYPE
\* message iff '<!DOCTYPE html>' is absent and the viewport message iff
\* 'viewport' is absent.
C12_ValidateHtml ==
    Validated =>
        /\ cli_out.raised = "none"
        /\ cli_out.result.valid <=> (cli_out.result.issues = <<>>)
        /\ cli_call.file.kind = "readable" =>
              /\ "Missing DOCTYPE declaration" \in Range(cli_out.result.issues)
                    <=> "<!DOCTYPE html>" \notin Range(cli_call.file.content)
              /\ "Missing viewport meta tag (important for responsive design)"
                        \in Range(cli_out.result.issues)
                    <=> "viewport" \notin Range(cli_call.file.content)

\* a page that validate_html finds valid, although it also holds a doctype in
\* lower case
C12_Witness ==
    /\ Validated
    /\ cli_call.file.kind = "readable"
    /\ "<!doctype html>" \in Range(cli_call.file.content)
    /\ cli_out.result.valid

\* the run called start_dev_server
DevServerRun ==
    /\ cli_out.done
    /\ cli_call.tool = "manager" /\ cli_call.command = "dev"
    /\ cli_call.workdir = "writable"

\* the configuration ProjectConfig(project_dir) loads in the run
LoadedConfig == load_config(cli_call.doc, <<"my-site">>, cli_call.io).value

\* C14 as stated: start_dev_server starts the watcher if and only if the
\* project directory exists and the loaded configuration has live_reload true.
C14_WatcherIffLiveReloadTrue ==
    DevServerRun =>
        (cli_out.watcher <=>
            /\ cli_call.dir_kind = "dir"
            /\ LoadedConfig.type = "dict"
            /\ Get(LoadedConfig.entries, "live_reload") = PyBool(TRUE))

\* C14: start_dev_server starts the watcher if and only if the project
\* directory exists and the loaded configuration is a mapping whose live_reload
\* value is truthy; with a falsy live_reload, or a missing directory, none is
\* started.
C14_WatcherIffLiveReloadTruthy ==
    DevServerRun =>
        (cli_out.watcher <=>
            /\ cli_call.dir_kind = "dir"
            /\ LoadedConfig.type = "dict"
            /\ LET v == Get(LoadedConfig.entries, "live_reload")
               IN  IF v.type = "bool" THEN v = PyBool(TRUE) ELSE v.val # <<>>)

\* the watcher was started for a config file whose live_reload is a string
C14_Witness ==
    /\ DevServerRun
    /\ cli_call.dir_kind = "dir"
    /\ cli_out.watcher
    /\ LoadedConfig.type = "dict"
    /\ Get(LoadedConfig.entries, "live_reload").type = "str"

\* C26: whenever start_dev_server returns after it started the file watcher
\* (the serve loop was interrupted, or the server could not bind the port),
\* the watcher has been stopped.
C26_WatcherStopped ==
    (DevServerRun /\ cli_out.watcher) => cli_out.watcher_stopped

\* a run of minify over a file that can be read
MinifyRun ==
    /\ cli_out.done
    /\ cli_call.tool = "generator" /\ cli_call.command = "minify"
    /\ cli_call.workdir = "writable"
    /\ cli_call.file.kind = "readable"

\* C30: minify_css never modifies its input file: for every input path, also
\* one whose name does not contain '.css', what is written is written to a
\* path different from the input path, and the content of the input file
\* after the call equals its content before, whether the call returns a
\* result or an error.
C30_InputUntouched ==
    MinifyRun
    => /\ cli_out.result.input_after = cli_call.file.content
       /\ cli_out.result.wrote => cli_out.result.minified_file # cli_call.path

\* C20: for every command of both tools and every failure during it, main
\* prints an error line and returns normally: no exception propagates out of
\* main.
C20_NoExceptionLeavesMain == cli_out.done => cli_out.raised = "none"

(***************************************************************************)
(* organize_files.py.  The tree is a function over <<directory, name>>,    *)
(* name "" for the directory itself; "." is the working directory.  A node *)
(* below something that is no directory is absent.                         *)
(***************************************************************************)
root_files ==
    <<"index.html", "bootstrap-playground.html", "flexbox-playground.html",
      "css-utilities.html", "styles.css">>

api_files == <<"bootstrap_generator.py", "project_manager.py">>

css_platform_dir == "css-learning-platform"

\* what css-learning-platform/js holds: a script and a directory
JsEntries == {"app.js", "lib"}

OrgDirs == {".", css_platform_dir, "api", "js", "css-learning-platform/js"}

OrgNames ==
    {""} \cup Range(root_files) \cup Range(api_files) \cup {"requirements.txt"}
        \cup JsEntries

OrgPaths == OrgDirs \X OrgNames

\* Path.exists()
OrgExists(tree, path) == tree[path].kind # "absent"

\* shutil.copy2(src, dst): [tree, exc]; a failing write leaves what was
\* written so far.  copy2 itself does not care whether dst is there.
copy2(tree, src, dst, fault) ==
    CASE tree[src].kind = "dir" -> [tree |-> tree, exc |-> "IsADirectoryError"]
      [] tree[src].kind # "dir" /\ tree[<<dst[1], "">>].kind # "dir" ->
            [tree |-> tree, exc |-> "NotADirectoryError"]
      [] tree[src].kind # "dir" /\ tree[<<dst[1], "">>].kind = "dir" /\ fault ->
            [tree |-> [tree EXCEPT ![dst] = FileNode(<<>>)], exc |-> "OSError"]
      [] OTHER -> [tree |-> [tree EXCEPT ![dst] = tree[src]], exc |-> "none"]

\* shutil.copytree(src_js, dst_js) for a dst_js that is not there
copytree(tree, src_dir, dst_dir, fault) ==
    IF fault
    THEN [tree |-> [tree EXCEPT ![<<dst_dir, "">>] = DirNode], exc |-> "OSError"]
    ELSE [tree |-> [q \in OrgPaths |->
                       IF q[1] = dst_dir THEN tree[<<src_dir, q[2]>>] ELSE tree[q]],
          exc |-> "none"]

CopyAlways(st, src, dst, fail_at) ==
    LET r == copy2(st.tree, src, dst, st.copies + 1 = fail_at)
    IN  [tree |-> r.tree, exc |-> r.exc, copies |-> st.copies + 1]

\* if dst.exists(): skip, else: shutil.copy2(src, dst)
CopyIfAbsent(st, src, dst, fail_at) ==
    IF OrgExists(st.tree, dst) THEN st
    ELSE LET r == copy2(st.tree, src, dst, st.copies + 1 = fail_at)
         IN  [tree |-> r.tree, exc |-> r.exc, copies |-> st.copies + 1]

\* the parts of organize_files in the order they run, one per loop pass
OrgSteps ==
    [i \in 1..Len(root_files) |-> [part |-> "root_file", name |-> root_files[i]]]
        \o <<[part |-> "api_dir", name |-> ""]>>
        \o [i \in 1..Len(api_files) |-> [part |-> "api_file", name |-> api_files[i]]]
        \o <<[part |-> "requirements", name |-> "requirements.txt"],
             [part |-> "js", name |-> ""]>>

\* one part of organize_files; st is [tree, exc, copies], copies the number
\* of copies begun so far, fail_at the copy an I/O failure hits (0: none)
OrgStep(st, step, fail_at) ==
    LET tree == st.tree
        platform == OrgExists(tree, <<css_platform_dir, "">>)
        in_platform == <<css_platform_dir, step.name>>
        in_root == <<".", step.name>>
        src_js == <<"css-learning-platform/js", "">>
        js_files == {n \in JsEntries : tree[<<"css-learning-platform/js", n>>].kind = "file"}
    IN  CASE step.part = "root_file" ->
                IF platform /\ OrgExists(tree, in_platform)
                THEN CopyIfAbsent(st, in_platform, in_root, fail_at)
                ELSE st
          [] step.part = "api_dir" ->
                IF OrgExists(tree, <<"api", "">>) THEN st
                ELSE [st EXCEPT !.tree = [tree EXCEPT ![<<"api", "">>] = DirNode]]
          [] step.part = "api_file" ->
                IF OrgExists(tree, in_root)
                THEN CopyIfAbsent(st, in_root, <<"api", step.name>>, fail_at)
                ELSE IF platform /\ OrgExists(tree, in_platform)
                THEN CopyIfAbsent(st, in_platform, <<"api", step.name>>, fail_at)
                ELSE st
          [] step.part = "requirements" ->
                IF platform /\ OrgExists(tree, in_platform)
                THEN CopyIfAbsent(st, in_platform, <<"api", step.name>>, fail_at)
                ELSE st
          [] step.part = "js" ->
                IF ~(platform /\ tree[src_js].kind = "dir") THEN st
                ELSE IF OrgExists(tree, <<"js", "">>)
                THEN \* one regular file is in the directory: the order of glob
                     \* does not matter
                     IF js_files = {} THEN st
                     ELSE LET n == CHOOSE x \in js_files : TRUE
                          IN  CopyIfAbsent(st, <<"css-learning-platform/js", n>>,
                                           <<"js", n>>, fail_at)
                ELSE LET r == copytree(tree, "css-learning-platform/js", "js",
                                       st.copies + 1 = fail_at)
                     IN  [tree |-> r.tree, exc |-> r.exc, copies |-> st.copies + 1]

RECURSIVE OrgRun(_, _, _)
OrgRun(st, i, fail_at) ==
    IF i > Len(OrgSteps) \/ st.exc # "none" THEN st
    ELSE OrgRun(OrgStep(st, OrgSteps[i], fail_at), i + 1, fail_at)

\* organize_files(): [tree, exc, copies]
organize_files(tree, fail_at) == OrgRun([tree |-> tree, exc |-> "none", copies |-> 0], 1, fail_at)

(***************************************************************************)
(* The trees organize_files is run over.                                   *)
(***************************************************************************)
\* the text of a file as the platform directory, or the root, ships it
Shipped(dir, name) == FileNode(<<dir, "/", name>>)

OwnFile == FileNode(OldText)

\* the copies an I/O failure may hit: none, or one of the first of a run
MaxFailedCopy == 2

\* what may be at a source and at its destination before a run
PairsFileOrDir == {<<"file", "absent">>, <<"file", "own">>, <<"absent", "own">>,
                   <<"dir", "absent">>}
PairsFile == {<<"file", "absent">>, <<"file", "own">>}

NodeOf(kind, dir, name) ==
    CASE kind = "file" -> Shipped(dir, name)
      [] kind = "own" -> OwnFile
      [] kind = "dir" -> DirNode
      [] OTHER -> Absent

\* a tree with the platform directory: index is the pair for index.html,
\* styles the pair for styles.css, api what is at api (absent, dir, file),
\* gen the pair <<bootstrap_generator.py in the root, in api/>>, req the pair
\* for requirements.txt, js what is at js (absent, empty, own, file)
PlatformTree(index, styles, api, gen, req, js) ==
    [q \in OrgPaths |->
        IF q[2] = ""
        THEN CASE q[1] \in {".", css_platform_dir, "css-learning-platform/js"} -> DirNode
               [] q[1] = "api" -> NodeOf(IF api = "file" THEN "own" ELSE api, "", "")
               [] q[1] = "js" /\ js = "absent" -> Absent
               [] q[1] = "js" /\ js = "file" -> OwnFile
               [] OTHER -> DirNode
        ELSE IF q[1] = css_platform_dir
        THEN CASE q[2] = "index.html" -> NodeOf(index[1], q[1], q[2])
               [] q[2] = "styles.css" -> NodeOf(styles[1], q[1], q[2])
               [] q[2] \in Range(api_files) -> Shipped(q[1], q[2])
               [] q[2] = "requirements.txt" -> NodeOf(req[1], q[1], q[2])
               [] OTHER -> Absent
        ELSE IF q[1] = "."
        THEN CASE q[2] = "index.html" -> NodeOf(index[2], q[1], q[2])
               [] q[2] = "styles.css" -> NodeOf(styles[2], q[1], q[2])
               [] q[2] = "bootstrap_generator.py" -> NodeOf(gen[1], q[1], q[2])
               [] OTHER -> Absent
        ELSE IF q[1] = "api"
        THEN CASE api = "dir" /\ q[2] = "bootstrap_generator.py" -> NodeOf(gen[2], q[1], q[2])
               [] api = "dir" /\ q[2] = "requirements.txt" -> NodeOf(req[2], q[1], q[2])
               [] OTHER -> Absent
        ELSE IF q[1] = "css-learning-platform/js"
        THEN CASE q[2] = "app.js" -> Shipped(q[1], q[2])
               [] q[2] = "lib" -> DirNode
               [] OTHER -> Absent
        ELSE IF js = "own" /\ q[2] = "app.js" THEN OwnFile ELSE Absent]

\* a tree without the platform directory: the deployed layout
DeployedTree(gen) ==
    [q \in OrgPaths |->
        CASE q = <<".", "">> -> DirNode
          [] q = <<".", "index.html">> -> OwnFile
          [] q = <<".", "bootstrap_generator.py">> -> NodeOf(gen, q[1], q[2])
          [] OTHER -> Absent]

OrgTrees ==
    {PlatformTree(index, styles, api, gen, req, js) :
        index \in PairsFileOrDir, styles \in PairsFile, api \in {"absent", "dir", "file"},
        gen \in {"absent", "file"} \X {"absent", "own"},
        req \in PairsFile \cup {<<"absent", "absent">>},
        js \in {"absent", "empty", "own", "file"}}
        \cup {DeployedTree(gen) : gen \in {"absent", "file"}}

\* the record of a run
OrgCall(n, fail_at, exc) == [op |-> "organize_files", n |-> n, fail_at |-> fail_at, exc |-> exc]

OrgInit ==
    /\ CfgIdle /\ TplIdle /\ HexIdle /\ ExtIdle
    /\ fs \in OrgTrees
    /\ call = [op |-> "none", n |-> 0]

\* python organize_files.py
OrganizeFiles ==
    /\ call.n < MaxCalls
    /\ \E fail_at \in 0..MaxFailedCopy :
          LET r == organize_files(fs, fail_at)
          IN  /\ fs' = r.tree
              /\ call' = OrgCall(call.n + 1, IF fail_at <= r.copies THEN fail_at ELSE 0, r.exc)
              /\ UNCHANGED <<cfgVars, tplVars, hexVars, extVars>>

OrgNext == OrganizeFiles

SpecOrg == OrgInit /\ [][OrgNext]_vars

====
